---------------------------- MODULE Spec2Model ----------------------------
(***************************************************************************)
(* CashFusion base plugin (plugins/fusion/plugin.py): the autofusion       *)
(* scheduler (FusionPlugin.run), the wallet lifecycle operations and the   *)
(* coin selection functions (select_coins, select_random_coins).           *)
(*                                                                         *)
(* Ten specifications share the module:                                    *)
(*   Spec        the plugin object with its two threads (the Plugins       *)
(*               thread running the scheduler tick, the GUI thread calling *)
(*               the lifecycle operations) and the rounds' own progress;   *)
(*   SpecCoins   select_coins applied to bounded wallet contents;          *)
(*   SpecSample  select_random_coins applied to the eligible lists of      *)
(*               bounded wallets, for bounded fractions, shuffles, draws;  *)
(*   SpecParams  get_target_params_1 and get_target_params_2 applied to    *)
(*               the eligible lists of wallets of 0..MaxParamCoins coins;  *)
(*   SpecStart   one call of start_fusion, for every server and Tor        *)
(*               setting, cached port and probe result;                    *)
(*   SpecClient  the plugin object under a client that calls the lifecycle *)
(*               operations on any wallet, in any order;                   *)
(*   SpecServer  the daemon commands fusion_server_start, _stop, _status   *)
(*               and _fuse on the plugin's local fusion server;            *)
(*   SpecScan    the Tor port cache from the plugin's construction on,     *)
(*               under calls of scan_torport, get_torport, start_fusion;   *)
(*   SpecSampleAny  select_random_coins on the lists of SpecSample and on  *)
(*               lists with buckets of more than 4 and more than 20 coins; *)
(*   SpecClose   Spec with on_close called at any moment.                  *)
(*                                                                         *)
(* Spec follows the plugin from the end of its initial Tor port scan to    *)
(* on_close.  Its GUI thread calls enable_autofusing, disable_autofusing   *)
(* and remove_wallet on attached wallets and add_wallet on detached ones.  *)
(* A step that takes a lock runs up to the release of that lock (taking a  *)
(* lock commutes with the steps of the other threads that come before it). *)
(* A call that takes no lock (enable_autofusing, disable_autofusing,       *)
(* add_wallet) is one step.  The locks a step holds are kept in its record *)
(* (last.locks).                                                           *)
(***************************************************************************)
EXTENDS Integers, Sequences, FiniteSets, TLC

VARIABLES
    autofusing_wallets, \* FusionPlugin.autofusing_wallets, in insertion order
    autofuse,           \* Conf(wallet).autofuse, the persisted flag
    attached,           \* the wallet carries _fusions and _fusions_auto
    fusions,            \* wallet._fusions
    fusions_auto,       \* wallet._fusions_auto
    status,             \* Fusion.status[0] of every round ("none": no such object)
    stopping,           \* Fusion.stopping
    active,             \* FusionPlugin.active
    tor_port_good,      \* FusionPlugin.tor_port_good ("unset": no such attribute yet)
    held,               \* per thread, the locks it holds between two steps, in
                        \* acquisition order
    pc,                 \* per thread, where it is
    tick,               \* the locals of the run() call in progress
    call_w,             \* the wallet argument of the remove_wallet call in progress
    last,               \* what the most recent step did (history)
    cw,                 \* SpecCoins: the wallet contents handed to select_coins
    sel,                \* SpecCoins: what select_coins returned
    arg,                \* SpecSample, SpecParams, SpecStart, SpecServer: the
                        \* arguments of the call
    ret,                \* SpecSample, SpecParams, SpecStart, SpecServer: what the
                        \* call returned
    fusion_server       \* FusionPlugin.fusion_server: the set of the FusionServer
                        \* objects it refers to (empty for None)

vars == <<autofusing_wallets, autofuse, attached, fusions, fusions_auto, status,
          stopping, active, tor_port_good, held, pc, tick, call_w, last, cw, sel,
          arg, ret, fusion_server>>

schedVars == <<autofusing_wallets, autofuse, attached, fusions, fusions_auto, status,
               stopping, active, tor_port_good, held, pc, tick, call_w, last>>

\* what no step of the scheduler, of the lifecycle operations and of the rounds
\* touches
coinVars == <<cw, sel, arg, ret, fusion_server>>

-----------------------------------------------------------------------------
(* Bounds of the model *)

\* rounds that can exist at the same time
MaxRounds == 2
\* longest address bucket SpecCoins draws
MaxBucketLen == 5
\* most coins of a bucket of SpecCoins that are not plain
MaxSpecial == 2

(* Program constants *)

AUTOFUSE_RECENT_TOR_LIMIT_LOWER == 60
AUTOFUSE_RECENT_TOR_LIMIT_UPPER == 120
COIN_FRACTION_FUDGE_FACTOR == 10
DEFAULT_MAX_COINS == 20
\* electroncash.bitcoin.COINBASE_MATURITY
COINBASE_MATURITY == 100

Wallets == {"w1", "w2"}
Rounds == 1..MaxRounds
Threads == {"plugins", "gui"}

\* wallet.has_password(): w1 is encrypted, w2 is not
has_password(w) == w = "w1"
\* wallet.check_password(password) passes
check_password(w, password) == IF has_password(w) THEN password = "good" ELSE TRUE
\* the passwords a caller may hand in
Passwords(w) == IF has_password(w) THEN {"None", "good", "bad"} ELSE {"None"}

-----------------------------------------------------------------------------
(* Sequences *)

RECURSIVE SeqSum(_)
SeqSum(s) ==
    IF Len(s) = 0 THEN 0
    ELSE IF Len(s) = 1 THEN s[1]
    ELSE LET h == Len(s) \div 2
         IN SeqSum(SubSeq(s, 1, h)) + SeqSum(SubSeq(s, h + 1, Len(s)))

RECURSIVE Flatten(_)
Flatten(ss) == IF ss = <<>> THEN <<>> ELSE Head(ss) \o Flatten(Tail(ss))

Range(s) == {s[i] : i \in 1..Len(s)}

\* the orders the elements of S can be put in
RECURSIVE PermSeqs(_)
PermSeqs(S) ==
    IF S = {} THEN {<<>>}
    ELSE UNION {{<<x>> \o q : q \in PermSeqs(S \ {x})} : x \in S}
\* the permutations of 1..n
Perms(n) == PermSeqs(1..n)

-----------------------------------------------------------------------------
(* Coins and wallet contents.  A coin is what wallet.get_addr_utxo yields:  *)
(* address and n identify it, the other fields are the ones read.           *)

Coin(a, n, value, height, coinbase, slp, frozen) ==
    [address |-> a, n |-> n, value |-> value, height |-> height,
     coinbase |-> coinbase, slp_token |-> slp, is_frozen_coin |-> frozen]

\* One address of a wallet: its coins (get_addr_utxo), whether it is in
\* wallet.frozen_addresses, and the txids of its history (get_address_history).
Address(a, frozen, coins, txids) ==
    [addr |-> a, frozen |-> frozen, coins |-> coins, txids |-> txids]

\* A wallet as select_coins reads it.
WalletView(addresses, local_height, autofuse_coinbase) ==
    [addresses |-> addresses, local_height |-> local_height,
     autofuse_coinbase |-> autofuse_coinbase]

mincbheight_NoPolicy(wallet) == wallet.local_height + 1 - COINBASE_MATURITY

\* plugin.py:104-105
mincbheight(wallet) ==
    IF wallet.autofuse_coinbase
    THEN wallet.local_height + 1 - COINBASE_MATURITY
    ELSE -1

\* plugin.py:119-122, the test of coin number i (from 0) of a bucket
CoinGood_ThreeUtxo(i, c, mincb) ==
    /\ i <= 2
    /\ ~c.slp_token
    /\ ~c.is_frozen_coin
    /\ (~c.coinbase \/ c.height <= mincb)

CoinGood_NoSlpTest(i, c, mincb) ==
    /\ i <= 3
    /\ ~c.is_frozen_coin
    /\ (~c.coinbase \/ c.height <= mincb)

CoinGood_FiveUtxo(i, c, mincb) ==
    /\ i <= 4
    /\ ~c.slp_token
    /\ ~c.is_frozen_coin
    /\ (~c.coinbase \/ c.height <= mincb)

CoinGood(i, c, mincb) ==
    /\ i <= 3
    /\ ~c.slp_token
    /\ ~c.is_frozen_coin
    /\ (~c.coinbase \/ c.height <= mincb)

\* the loop without the override of plugin.py:130-133 on good
RECURSIVE CoinLoop_GoodKept(_, _, _, _)
CoinLoop_GoodKept(acoins, i, mincb, acc) ==
    IF i >= Len(acoins) THEN acc
    ELSE LET c == acoins[i + 1]
         IN CoinLoop_GoodKept(acoins, i + 1, mincb,
                [good |-> acc.good /\ CoinGood(i, c, mincb),
                 sum_value |-> acc.sum_value + c.value,
                 has_unconfirmed |-> acc.has_unconfirmed \/ c.height <= 0,
                 has_coinbase |-> acc.has_coinbase \/ c.coinbase])

\* plugin.py:113-135, the loop over one address's coins from coin i on; acc
\* carries good, sum_value, has_unconfirmed and has_coinbase
RECURSIVE CoinLoop(_, _, _, _)
CoinLoop(acoins, i, mincb, acc) ==
    IF i >= Len(acoins) THEN acc
    ELSE LET c == acoins[i + 1]
             good1 == acc.good /\ CoinGood(i, c, mincb)
             unconfirmed == c.height <= 0
         IN CoinLoop(acoins, i + 1, mincb,
                [good |-> IF unconfirmed THEN FALSE ELSE good1,
                 sum_value |-> acc.sum_value + c.value,
                 has_unconfirmed |-> acc.has_unconfirmed \/ unconfirmed,
                 has_coinbase |-> acc.has_coinbase \/ c.coinbase])

\* plugin.py:106-139, the loop over the addresses from address k on
RECURSIVE AddrLoop(_, _, _, _)
AddrLoop(wallet, k, mincb, r) ==
    IF k > Len(wallet.addresses) THEN r
    ELSE LET a == wallet.addresses[k]
             acoins == a.coins
         IN IF acoins = <<>> THEN AddrLoop(wallet, k + 1, mincb, r)
            ELSE LET acc == CoinLoop(acoins, 0, mincb,
                                [good |-> ~a.frozen,
                                 sum_value |-> r.sum_value,
                                 has_unconfirmed |-> r.has_unconfirmed,
                                 has_coinbase |-> r.has_coinbase])
                     entry == [addr |-> a.addr, coins |-> acoins]
                 IN AddrLoop(wallet, k + 1, mincb,
                        [eligible |-> IF acc.good THEN Append(r.eligible, entry)
                                      ELSE r.eligible,
                         ineligible |-> IF acc.good THEN r.ineligible
                                        ELSE Append(r.ineligible, entry),
                         sum_value |-> acc.sum_value,
                         has_unconfirmed |-> acc.has_unconfirmed,
                         has_coinbase |-> acc.has_coinbase])

select_coins_KeepEmpty(wallet) ==
    LET r == AddrLoop(wallet, 1, mincbheight(wallet),
                 [eligible |-> <<>>, ineligible |-> <<>>, sum_value |-> 0,
                  has_unconfirmed |-> FALSE, has_coinbase |-> FALSE])
        empty == SelectSeq(wallet.addresses, LAMBDA a : a.coins = <<>>)
    IN [r EXCEPT !.eligible = @ \o [k \in 1..Len(empty) |->
                                       [addr |-> empty[k].addr, coins |-> <<>>]]]

select_coins_EligibleValue(wallet) ==
    LET r == AddrLoop(wallet, 1, mincbheight(wallet),
                 [eligible |-> <<>>, ineligible |-> <<>>, sum_value |-> 0,
                  has_unconfirmed |-> FALSE, has_coinbase |-> FALSE])
    IN [r EXCEPT !.sum_value =
            SeqSum([k \in 1..Len(r.eligible) |->
                       SeqSum([i \in 1..Len(r.eligible[k].coins) |->
                                  r.eligible[k].coins[i].value])])]

\* plugin.py:87-141
select_coins(wallet) ==
    AddrLoop(wallet, 1, mincbheight(wallet),
        [eligible |-> <<>>, ineligible |-> <<>>, sum_value |-> 0,
         has_unconfirmed |-> FALSE, has_coinbase |-> FALSE])

-----------------------------------------------------------------------------
(* Numbers that are floats in the code are exact rationals here. *)

Rat(n, d) == [num |-> n, den |-> d]
\* a > b, both denominators positive
RatGt(a, b) == a.num * b.den > b.num * a.den

\* KEEP_LINKED_PROBABILITY is 1 / KEEP_LINKED_DENOM
KEEP_LINKED_DENOM == 10

RECURSIVE KeepLinkedPow(_)
\* KEEP_LINKED_PROBABILITY ** n
KeepLinkedPow(n) == IF n = 0 THEN Rat(1, 1)
                    ELSE Rat(1, KEEP_LINKED_DENOM * KeepLinkedPow(n - 1).den)

\* wallet.get_address_history(addr), the txids only
AddressHistory(wallet, addr) ==
    UNION {wallet.addresses[k].txids :
              k \in {j \in 1..Len(wallet.addresses) : wallet.addresses[j].addr = addr}}

\* random.shuffle(addr_coins) with the permutation p drawn
Shuffle(addr_coins, p) == [k \in 1..Len(addr_coins) |-> addr_coins[p[k]]]

\* plugin.py:167: the cap is reached, the loop ends
CapReached(num_coins) == num_coins >= DEFAULT_MAX_COINS

OverCap_Never(num_coins, acoins) == FALSE

\* the bucket counted as one coin
OverCap_OneCoin(num_coins, acoins) == num_coins + 1 > DEFAULT_MAX_COINS

\* plugin.py:169: the bucket does not fit under the cap, it is passed over
OverCap(num_coins, acoins) == num_coins + Len(acoins) > DEFAULT_MAX_COINS

\* plugin.py:173: the draw u rejects the bucket
FractionRejects(u, fraction) == RatGt(u, fraction)

\* plugin.py:181: the draw u rejects a bucket with n collisions
LinkRejects(u, n) == RatGt(u, KeepLinkedPow(n))

\* plugin.py:166-186, the loop from bucket k on; u1[k] and u2[k] are the values
\* random.random() returns for bucket k; st carries num_coins, result, result_txids
RECURSIVE SampleLoop(_, _, _, _, _, _, _)
SampleLoop(wallet, fraction, addr_coins, k, u1, u2, st) ==
    IF k > Len(addr_coins) THEN st
    ELSE LET acoins == addr_coins[k].coins
             ctxids == AddressHistory(wallet, addr_coins[k].addr)
             collisions == ctxids \cap st.result_txids
             next(s) == SampleLoop(wallet, fraction, addr_coins, k + 1, u1, u2, s)
         IN IF CapReached(st.num_coins) THEN st
            ELSE IF OverCap(st.num_coins, acoins) THEN next(st)
            ELSE IF FractionRejects(u1[k], fraction) THEN next(st)
            ELSE IF LinkRejects(u2[k], Cardinality(collisions)) THEN next(st)
            ELSE next([num_coins |-> st.num_coins + Len(acoins),
                       result |-> Append(st.result, acoins),
                       result_txids |-> st.result_txids \cup ctxids])

FirstNonEmpty_None(addr_coins) == <<>>

\* plugin.py:188-195: the first non-empty bucket, if there is one
FirstNonEmpty(addr_coins) ==
    LET idx == {k \in 1..Len(addr_coins) : addr_coins[k].coins # <<>>}
    IN IF idx = {} THEN <<>>
       ELSE <<addr_coins[CHOOSE k \in idx : \A j \in idx : k <= j].coins>>

\* plugin.py:143-197.  result is the returned list of coin lists; addr_coins is
\* the caller's eligible list as the call leaves it (shuffled in place).
select_random_coins(wallet, fraction, eligible, p, u1, u2) ==
    LET addr_coins == Shuffle(eligible, p)
        st == SampleLoop(wallet, fraction, addr_coins, 1, u1, u2,
                  [num_coins |-> 0, result |-> <<>>, result_txids |-> {}])
    IN [result |-> IF st.result = <<>> THEN FirstNonEmpty(addr_coins) ELSE st.result,
        addr_coins |-> addr_coins]

-----------------------------------------------------------------------------
(* The per-wallet settings read through Conf(wallet).  fusion_mode and      *)
(* autofuse_coinbase are read by plugin.py; conf.py under src/ defines      *)
(* the other keys.                                                          *)

WalletConf(mode, queued, confirmed_only, selector) ==
    [fusion_mode |-> mode, queued_autofuse |-> queued,
     autofuse_confirmed_only |-> confirmed_only, selector |-> selector]

\* the eligible coin count, plugin.py:204
get_n_coins(eligible) == SeqSum([k \in 1..Len(eligible) |-> Len(eligible[k].coins)])

PyRound_Floor(n, d) == n \div d

\* Python's round(n / d) for integers n >= 0, d > 0: halves go to the even side
PyRound(n, d) ==
    LET q == n \div d
        r == n % d
    IN IF 2 * r < d THEN q
       ELSE IF 2 * r > d THEN q + 1
       ELSE IF q % 2 = 0 THEN q ELSE q + 1

\* math.ceil(n / d) for integers n >= 0, d > 0
Ceil(n, d) == (n + d - 1) \div d

Trunc_Ceil(n, d) == (n + d - 1) \div d

\* math.trunc(n / d) for integers n >= 0, d > 0
Trunc(n, d) == n \div d

Max(a, b) == IF a >= b THEN a ELSE b

\* plugin.py:199-218; returns <<target_num_auto, confirmed_only>>
get_target_params_1(conf, eligible) ==
    LET n_coins == get_n_coins(eligible)
    IN CASE conf.fusion_mode = "normal" ->
              <<Max(2, PyRound(n_coins, DEFAULT_MAX_COINS)), FALSE>>
         [] conf.fusion_mode = "fan-out" ->
              \* n / (FUDGE * 0.65) = 100 n / (65 FUDGE)
              <<Max(4, Ceil(100 * n_coins, 65 * COIN_FRACTION_FUDGE_FACTOR)), FALSE>>
         [] conf.fusion_mode = "consolidate" ->
              \* n / (FUDGE * 1.5) = 10 n / (15 FUDGE)
              LET num_threads == Trunc(10 * n_coins, 15 * COIN_FRACTION_FUDGE_FACTOR)
              IN <<num_threads, num_threads <= 1>>
         [] OTHER -> <<conf.queued_autofuse, conf.autofuse_confirmed_only>>

\* int(x) # 0 for a rational x
IntNonZero(x) == IF x.num >= 0 THEN x.num >= x.den ELSE -x.num >= x.den

\* plugin.py:220-248; the fraction as a rational with a positive denominator
get_target_params_2(conf, eligible, sum_value) ==
    LET select_type == conf.selector[1]
        select_amount == conf.selector[2]
    IN CASE conf.fusion_mode = "custom" ->
              IF select_type = "size" /\ sum_value # 0
              THEN Rat(COIN_FRACTION_FUDGE_FACTOR * select_amount.num,
                       sum_value * select_amount.den)
              ELSE IF select_type = "count" /\ IntNonZero(select_amount)
              THEN (IF select_amount.num > 0
                    THEN Rat(COIN_FRACTION_FUDGE_FACTOR * select_amount.den,
                             select_amount.num)
                    ELSE Rat(-COIN_FRACTION_FUDGE_FACTOR * select_amount.den,
                             -select_amount.num))
              ELSE IF select_type = "fraction" THEN select_amount
              ELSE Rat(1, 10)
         [] conf.fusion_mode = "consolidate" -> Rat(1, 1)
         [] conf.fusion_mode = "normal" -> Rat(1, 2)
         [] OTHER -> Rat(1, 10)

-----------------------------------------------------------------------------
(* The plugin object: locks, registry, rounds *)

HoldsIn(h, t, l) == \E i \in 1..Len(h[t]) : h[t][i] = l
Holds(t, l) == HoldsIn(held, t, l)
\* thread t can take lock l (the locks are RLocks)
Free(t, l) == \A u \in Threads \ {t} : ~Holds(u, l)
Acquire(h, t, l) == [h EXCEPT ![t] = Append(@, l)]
ReleaseAll(h, t) == [h EXCEPT ![t] = <<>>]

\* plugin.py:264: always order plugin.lock -> wallet.lock -> fusion.lock
LockRank(l) == IF l = "plugin" THEN 0 ELSE IF l \in Wallets THEN 1 ELSE 2

InRegistry(reg, w) == \E i \in 1..Len(reg) : reg[i].wallet = w
\* the registry left as it is
RegPop_Keep(reg, w) == reg

\* autofusing_wallets.pop(wallet, None)
RegPop(reg, w) == SelectSeq(reg, LAMBDA e : e.wallet # w)
\* the password of a wallet already in the registry replaced, no entry added
RegSet_Known(reg, w, password) ==
    [i \in 1..Len(reg) |->
        IF reg[i].wallet = w THEN [wallet |-> w, password |-> password] ELSE reg[i]]

\* autofusing_wallets[wallet] = password
RegSet(reg, w, password) ==
    IF InRegistry(reg, w)
    THEN [i \in 1..Len(reg) |->
            IF reg[i].wallet = w THEN [wallet |-> w, password |-> password] ELSE reg[i]]
    ELSE Append(reg, [wallet |-> w, password |-> password])

Finished == {"complete", "failed"}

\* A round that is over and in no wallet's set any more is destroyed (the sets
\* hold weak references).  st, fs, fa: status, _fusions, _fusions_auto.
Collect(st, fs, fa) ==
    [f \in Rounds |->
        IF st[f] \in Finished /\ \A w \in Wallets : f \notin fs[w] \cup fa[w]
        THEN "none" ELSE st[f]]

\* A step's record: the operation, its wallet, the branch it took (result), the
\* exception it let out (raised), the rounds it returned (ret), the stop requests
\* it made (stops, pairs <<round, not_if_running>>), the rounds it started, the
\* shared objects it touched (access), the locks its thread held while it touched
\* them, in the order it took them (locks), and for a call of start_fusion the
\* wallet contents (view) and the coins passed.
Ev(op, w, result) ==
    [op |-> op, w |-> w, result |-> result, raised |-> "", ret |-> {}, stops |-> {},
     started |-> {}, access |-> {}, locks |-> <<>>, view |-> 0, coins |-> <<>>]

\* self.autofusing_wallets
RegistryAccess == [obj |-> "registry", w |-> "-"]
\* wallet._fusions and wallet._fusions_auto
RoundsAccess(w) == [obj |-> "rounds", w |-> w]

\* Fusion.stop(reason, not_if_running) for every request in reqs: a round that is
\* running ignores a request with not_if_running; a round already over ignores all
Fusion_stop(reqs) ==
    [f \in Rounds |->
        \/ stopping[f]
        \/ \E r \in reqs : /\ r[1] = f
                           /\ status[f] \notin Finished \cup {"none"}
                           /\ ~(r[2] /\ status[f] = "running")]

\* plugin.py:349-350
DisableStops(w) == {<<f, TRUE>> : f \in fusions_auto[w]}

\* plugin.py:351-352
DisableRunning_NotOver(w) == {f \in fusions_auto[w] : status[f] \notin Finished}

DisableRunning(w) == {f \in fusions_auto[w] : status[f] = "running"}

\* plugin.py:443-448
CooldownStops_Forced(w) ==
    {<<f, FALSE>> : f \in {g \in fusions_auto[w] :
                              status[g] \notin Finished /\ ~stopping[g]}}

CooldownStops(w) ==
    {<<f, TRUE>> : f \in {g \in fusions_auto[w] :
                             status[g] \notin Finished /\ ~stopping[g]}}

\* no round asked to stop
UnconfirmedStops_None(auto) == {}

\* plugin.py:467-468 and 484-485, auto being wallet._fusions_auto after the pruning
UnconfirmedStops(auto) == {<<f, TRUE>> : f \in auto}

\* the cooldown from the upper limit on
NeedsCooldown_Inclusive(torcount) == torcount >= AUTOFUSE_RECENT_TOR_LIMIT_UPPER

\* plugin.py:438
NeedsCooldown(torcount) == torcount > AUTOFUSE_RECENT_TOR_LIMIT_UPPER

\* plugin.py:450
Throttled_Never(torcount) == FALSE

Throttled(torcount) == torcount > AUTOFUSE_RECENT_TOR_LIMIT_LOWER

-----------------------------------------------------------------------------
(* Tor port resolution *)

TOR_PORTS == <<"9050", "9150">>

\* plugin.py:324-335: the ports to probe, in order; env.tc is the Tor
\* controller's active socks port being there
ScanPortlist(tor_port_auto, env) ==
    IF tor_port_auto
    THEN (IF env.tc THEN <<"tc">> ELSE <<>>) \o TOR_PORTS
    ELSE <<"manual">>

\* the last port of the list that answers
scan_torport_LastGood(tor_port_auto, env) ==
    LET portlist == ScanPortlist(tor_port_auto, env)
        good == {k \in 1..Len(portlist) : portlist[k] \in env.up}
    IN IF good = {} THEN "None"
       ELSE portlist[CHOOSE k \in good : \A j \in good : k >= j]

\* plugin.py:318-343: the port cached and returned; env.up is the ports
\* is_tor_port answers for
scan_torport(tor_port_auto, env) ==
    LET portlist == ScanPortlist(tor_port_auto, env)
        good == {k \in 1..Len(portlist) : portlist[k] \in env.up}
    IN IF good = {} THEN "None"
       ELSE portlist[CHOOSE k \in good : \A j \in good : k <= j]

\* plugin.py:337-340: the ports the loop calls is_tor_port on, in order, up to
\* the first that answers
ScanProbes(tor_port_auto, env) ==
    LET portlist == ScanPortlist(tor_port_auto, env)
        good == {k \in 1..Len(portlist) : portlist[k] \in env.up}
    IN IF good = {} THEN portlist
       ELSE SubSeq(portlist, 1, CHOOSE k \in good : \A j \in good : k <= j)

\* what the probes of one scan may find
ProbeEnvs == {[tc |-> FALSE, up |-> {}], [tc |-> FALSE, up |-> {"9150"}]}

\* what start_fusion depends on outside the plugin object
StartEnvs ==
    [can_fuse_from : BOOLEAN, can_fuse_to : BOOLEAN, host_local : BOOLEAN,
     tor_port_auto : BOOLEAN, probe : ProbeEnvs]

\* the cached port whatever the mode
get_torport_Cached(tor_port_auto, tor) == tor

\* plugin.py:297-303: the autodetected port in automatic mode ("unset" while the
\* attribute tor_port_good does not exist yet, "None" when the last scan found
\* no port), the manual port otherwise
get_torport(tor_port_auto, tor) == IF tor_port_auto THEN tor ELSE "manual"

\* plugin.py:395-420 up to the round's construction and start: the exception
\* raised ("" when the round is started and returned), tor_port_good after,
\* whether scan_torport was called, and the Tor port the round is given
\* ("None" for the local server, "-" when no round is constructed)
start_fusion(e, tor) ==
    LET construct(port) ==
            [raised |-> "", tor |-> tor, probed |-> FALSE, torport |-> port]
        fail(exc) == [raised |-> exc, tor |-> tor, probed |-> FALSE, torport |-> "-"]
        torport == get_torport(e.tor_port_auto, tor)
    IN IF ~e.can_fuse_from \/ ~e.can_fuse_to THEN fail("AssertionError")
       ELSE IF e.host_local THEN construct("None")
       ELSE IF torport = "unset" THEN fail("AttributeError")
       ELSE IF torport # "None" THEN construct(torport)
       ELSE LET scanned == scan_torport(e.tor_port_auto, e.probe)
            IN IF scanned = "None"
               THEN [raised |-> "RuntimeError", tor |-> scanned, probed |-> TRUE,
                     torport |-> "-"]
               ELSE [raised |-> "", tor |-> scanned, probed |-> TRUE,
                     torport |-> scanned]

\* tor_port_good at a call
CachedPorts == {"unset", "None"} \cup {TOR_PORTS[k] : k \in 1..Len(TOR_PORTS)}

\* what a call of start_fusion may do, by the cached port
StartOutcomeTable == [tor \in CachedPorts |-> {start_fusion(e, tor) : e \in StartEnvs}]

StartOutcomes(tor) == StartOutcomeTable[tor]

-----------------------------------------------------------------------------
(* What a scheduler tick may find: wallet contents, settings, random draws *)

PlainCoin(a, n) == Coin(a, n, 1000 + n, 10, FALSE, FALSE, FALSE)

SchedViews == <<
    \* nothing eligible: an unconfirmed coin, and a token coin beside a plain one
    WalletView(<<Address("a1", FALSE, <<Coin("a1", 0, 3000, 0, FALSE, FALSE, FALSE)>>,
                         {"t1"}),
                 Address("a2", FALSE, <<PlainCoin("a2", 0),
                                        Coin("a2", 1, 546, 10, FALSE, TRUE, FALSE)>>,
                         {"t2"})>>, 700, FALSE),
    \* two eligible addresses that share a transaction, a frozen address, and a
    \* frozen coin beside a plain one
    WalletView(<<Address("a1", FALSE, <<PlainCoin("a1", 0)>>, {"t1", "t2"}),
                 Address("a2", FALSE, <<PlainCoin("a2", 0), PlainCoin("a2", 1)>>,
                         {"t2", "t3"}),
                 Address("a3", TRUE, <<PlainCoin("a3", 0)>>, {"t4"}),
                 Address("a4", FALSE, <<PlainCoin("a4", 0),
                                        Coin("a4", 1, 4000, 10, FALSE, FALSE, TRUE)>>,
                         {"t5"})>>, 700, FALSE) >>

SchedConfs == <<
    WalletConf("normal", 4, FALSE, <<"fraction", Rat(1, 10)>>),
    WalletConf("custom", 1, TRUE, <<"fraction", Rat(1, 10)>>),
    WalletConf("custom", 2, TRUE, <<"fraction", Rat(1, 10)>>) >>

\* values random.random() may return
Draws == {Rat(0, 1), Rat(1, 20), Rat(1, 2), Rat(99, 100)}

\* the number of recent Tor connections a tick may read (limiter.count)
TorCounts == {AUTOFUSE_RECENT_TOR_LIMIT_LOWER, AUTOFUSE_RECENT_TOR_LIMIT_LOWER + 1,
              AUTOFUSE_RECENT_TOR_LIMIT_UPPER, AUTOFUSE_RECENT_TOR_LIMIT_UPPER + 1}

\* plugin.py:461
TickSelect(view) == select_coins(view)

\* plugin.py:470-472: every coin list the draws can give
SampledCoins(view, conf) ==
    LET sc == TickSelect(view)
        fraction == get_target_params_2(conf, sc.eligible, sc.sum_value)
        n == Len(sc.eligible)
    IN {Flatten(select_random_coins(view, fraction, sc.eligible, p, u1, u2).result) :
            p \in Perms(n), u1 \in [1..n -> Draws], u2 \in [1..n -> Draws]}

\* plugin.py:461 and 462 for the wallet contents and settings of the ticks, by
\* index
SchedSelected == [vi \in 1..Len(SchedViews) |-> TickSelect(SchedViews[vi])]
SchedParams ==
    [vi \in 1..Len(SchedViews) |->
        [ci \in 1..Len(SchedConfs) |->
            get_target_params_1(SchedConfs[ci], SchedSelected[vi].eligible)]]

\* wallet contents, settings and sampled coins, by index
TickInputs ==
    UNION {{[view |-> vi, conf |-> ci, coins |-> c] :
                c \in SampledCoins(SchedViews[vi], SchedConfs[ci])} :
           vi \in 1..Len(SchedViews), ci \in 1..Len(SchedConfs)}

-----------------------------------------------------------------------------
(* The scheduler tick, FusionPlugin.run, on the Plugins thread.  TickEnter   *)
(* is the call that passes the downclocking of plugin.py:427-432; it keeps   *)
(* the plugin lock until the tick ends.  The body of one wallet, from taking *)
(* the wallet's lock to releasing it, is one step.                           *)

IdleTick == [torcount |-> 0, snapshot |-> <<>>, i |-> 0]

TickWallet == tick.snapshot[tick.i].wallet

\* where the tick stands after the body of one wallet: the next wallet of the
\* loop, the second loop, or the end of run() with every lock released
TickNext(loop, goOn) ==
    IF goOn /\ tick.i < Len(tick.snapshot)
    THEN [pc |-> loop, held |-> held, tick |-> [tick EXCEPT !.i = @ + 1]]
    ELSE IF goOn /\ loop = "cooldown" /\ ~Throttled(tick.torcount)
                 /\ autofusing_wallets # <<>>
    THEN [pc |-> "normal", held |-> held,
          tick |-> [tick EXCEPT !.snapshot = autofusing_wallets, !.i = 1]]
    ELSE [pc |-> "idle", held |-> ReleaseAll(held, "plugins"), tick |-> IdleTick]

\* the test of the flag left out
Inactive_Never(plugin_active) == FALSE

\* plugin.py:435: the plugin has been closed
Inactive(plugin_active) == ~plugin_active

\* plugin.py:434-440 and 450-452
TickEnter(torcount) ==
    /\ pc["plugins"] = "idle"
    /\ Free("plugins", "plugin")
    /\ LET inside == Acquire(held, "plugins", "plugin")
           band == IF Inactive(active) THEN "inactive"
                   ELSE IF NeedsCooldown(torcount) THEN "cooldown"
                   ELSE IF Throttled(torcount) THEN "throttled"
                   ELSE "normal"
           loops == band \in {"cooldown", "normal"} /\ autofusing_wallets # <<>>
       IN /\ pc' = [pc EXCEPT !["plugins"] = IF loops THEN band ELSE "idle"]
          /\ held' = IF loops THEN inside ELSE held
          /\ tick' = IF loops
                     THEN [torcount |-> torcount, snapshot |-> autofusing_wallets, i |-> 1]
                     ELSE IdleTick
          /\ last' = [Ev("run", "-", band) EXCEPT
                        !.access = IF band \in {"cooldown", "normal"}
                                   THEN {RegistryAccess} ELSE {},
                        !.locks = inside["plugins"]]
    /\ UNCHANGED <<autofusing_wallets, autofuse, attached, fusions, fusions_auto, status,
                   stopping, active, tor_port_good, call_w, coinVars>>

\* plugin.py:441-448, then 450-452 after the last wallet
TickCooldownBody ==
    /\ pc["plugins"] = "cooldown"
    /\ Free("plugins", TickWallet)
    /\ LET w == TickWallet
           inside == Acquire(held, "plugins", w)
           nxt == TickNext("cooldown", attached[w])
       IN /\ pc' = [pc EXCEPT !["plugins"] = nxt.pc]
          /\ held' = nxt.held
          /\ tick' = nxt.tick
          /\ IF attached[w]
             THEN /\ fusions_auto' = [fusions_auto EXCEPT
                                        ![w] = {f \in @ : status[f] \notin Finished}]
                  /\ stopping' = Fusion_stop(CooldownStops(w))
                  /\ last' = [Ev("run_cooldown", w, "ok") EXCEPT
                                !.stops = CooldownStops(w),
                                !.access = {RoundsAccess(w)},
                                !.locks = inside["plugins"]]
             ELSE \* wallet._fusions_auto: no such attribute
                  /\ UNCHANGED <<fusions_auto, stopping>>
                  /\ last' = [Ev("run_cooldown", w, "error") EXCEPT
                                !.raised = "AttributeError",
                                !.locks = inside["plugins"]]
    /\ UNCHANGED <<autofusing_wallets, autofuse, attached, fusions, status, active,
                   tor_port_good, call_w, coinVars>>

\* the smallest round identity not in use
NewRound == CHOOSE f \in Rounds : status[f] = "none" /\ \A g \in Rounds :
                                      status[g] = "none" => f <= g

\* plugin.py:464
BelowTarget_Inclusive(num_auto, target_num_auto) == num_auto <= target_num_auto

BelowTarget(num_auto, target_num_auto) == num_auto < target_num_auto

\* plugin.py:455-485 for an attached wallet: inp is what the step finds in the
\* wallet and its settings, and the coins the sampling gives
TickNormalStep(inp) ==
    LET w == TickWallet
        inside == Acquire(held, "plugins", w)
        auto == {f \in fusions_auto[w] : status[f] \notin Finished}
        num_auto == Cardinality(auto)
        sc == SchedSelected[inp.view]
        params == SchedParams[inp.view][inp.conf]
        target_num_auto == params[1]
        confirmed_only == params[2]
        ev(result) == [Ev("run_wallet", w, result) EXCEPT
                         !.access = {RoundsAccess(w)},
                         !.locks = inside["plugins"]]
        \* the step ends without a call of start_fusion
        quiet(result, reqs) ==
            LET nxt == TickNext("normal", TRUE)
            IN /\ pc' = [pc EXCEPT !["plugins"] = nxt.pc]
               /\ held' = nxt.held
               /\ tick' = nxt.tick
               /\ fusions_auto' = [fusions_auto EXCEPT ![w] = auto]
               /\ stopping' = Fusion_stop(reqs)
               /\ last' = [ev(result) EXCEPT !.stops = reqs]
               /\ UNCHANGED <<fusions, status, tor_port_good>>
    IN IF BelowTarget(num_auto, target_num_auto)
       THEN IF confirmed_only /\ sc.has_unconfirmed
            THEN quiet("wait_confirmed", UnconfirmedStops(auto))
            ELSE IF inp.coins = <<>>
            THEN quiet("no_coins", {})
            ELSE \E out \in StartOutcomes(tor_port_good) :
                 LET started == out.raised = ""
                     nxt == TickNext("normal", started)
                     f == NewRound
                 IN /\ started => \E g \in Rounds : status[g] = "none"
                    /\ pc' = [pc EXCEPT !["plugins"] = nxt.pc]
                    /\ held' = nxt.held
                    /\ tick' = nxt.tick
                    /\ tor_port_good' = out.tor
                    /\ stopping' = stopping
                    /\ status' = IF started
                                 THEN [status EXCEPT ![f] = "waiting"]
                                 ELSE status
                    /\ fusions' = IF started
                                  THEN [fusions EXCEPT ![w] = @ \cup {f}]
                                  ELSE fusions
                    /\ fusions_auto' =
                           [fusions_auto EXCEPT
                              ![w] = IF started THEN auto \cup {f} ELSE auto]
                    \* "tor_unavailable": the RuntimeError of plugin.py:413,
                    \* caught at 479; "start_failed": any other exception
                    /\ last' = [ev(IF started THEN "started"
                                   ELSE IF out.raised = "RuntimeError"
                                   THEN "tor_unavailable"
                                   ELSE "start_failed") EXCEPT
                                  !.view = inp.view,
                                  !.coins = inp.coins,
                                  !.started = IF started THEN {f} ELSE {},
                                  !.raised = IF out.raised = "RuntimeError"
                                             THEN "" ELSE out.raised]
       ELSE IF confirmed_only /\ sc.has_unconfirmed
            THEN quiet("wait_confirmed", UnconfirmedStops(auto))
            ELSE quiet("enough", {})

\* plugin.py:453-485
TickNormalBody ==
    /\ pc["plugins"] = "normal"
    /\ Free("plugins", TickWallet)
    /\ IF ~attached[TickWallet]
       THEN \* wallet._fusions_auto: no such attribute
            LET nxt == TickNext("normal", FALSE)
            IN /\ pc' = [pc EXCEPT !["plugins"] = nxt.pc]
               /\ held' = nxt.held
               /\ tick' = nxt.tick
               /\ last' = [Ev("run_wallet", TickWallet, "error") EXCEPT
                             !.raised = "AttributeError",
                             !.locks = Acquire(held, "plugins", TickWallet)["plugins"]]
               /\ UNCHANGED <<fusions, fusions_auto, status, stopping, tor_port_good>>
       ELSE \E inp \in TickInputs : TickNormalStep(inp)
    /\ UNCHANGED <<autofusing_wallets, autofuse, attached, active, call_w, coinVars>>

-----------------------------------------------------------------------------
(* The lifecycle operations, called on the GUI thread *)

\* plugin.py:360-361 without the test of 356-359
enable_autofusing_Unchecked(reg, flags, w, password) ==
    [raised |-> "", registry |-> RegSet(reg, w, password),
     autofuse |-> [flags EXCEPT ![w] = TRUE]]

\* plugin.py:355-361: the exception raised, the registry and the flags after
enable_autofusing(reg, flags, w, password) ==
    IF (password = "None" /\ has_password(w)) \/ ~check_password(w, password)
    THEN [raised |-> "InvalidPassword", registry |-> reg, autofuse |-> flags]
    ELSE [raised |-> "", registry |-> RegSet(reg, w, password),
          autofuse |-> [flags EXCEPT ![w] = TRUE]]

EnableAutofusing(t, w, password) ==
    /\ pc[t] = "idle"
    /\ LET e == enable_autofusing(autofusing_wallets, autofuse, w, password)
       IN /\ autofusing_wallets' = e.registry
          /\ autofuse' = e.autofuse
          /\ last' = [Ev("enable_autofusing", w, IF e.raised = "" THEN "ok" ELSE "error")
                        EXCEPT !.raised = e.raised,
                               !.access = IF e.raised = "" THEN {RegistryAccess}
                                          ELSE {},
                               !.locks = held[t]]
    /\ UNCHANGED <<attached, fusions, fusions_auto, status, stopping, active,
                   tor_port_good, held, pc, tick, call_w, coinVars>>

\* plugin.py:345-353
DisableAutofusing(t, w) ==
    /\ pc[t] = "idle"
    /\ autofusing_wallets' = RegPop(autofusing_wallets, w)
    /\ autofuse' = [autofuse EXCEPT ![w] = FALSE]
    /\ IF attached[w]
       THEN /\ stopping' = Fusion_stop(DisableStops(w))
            /\ last' = [Ev("disable_autofusing", w, "ok") EXCEPT
                          !.stops = DisableStops(w),
                          !.ret = DisableRunning(w),
                          !.access = {RegistryAccess, RoundsAccess(w)},
                          !.locks = held[t]]
       ELSE \* wallet._fusions_auto: no such attribute
            /\ stopping' = stopping
            /\ last' = [Ev("disable_autofusing", w, "error") EXCEPT
                          !.raised = "AttributeError",
                          !.access = {RegistryAccess},
                          !.locks = held[t]]
    /\ UNCHANGED <<attached, fusions, fusions_auto, status, active, tor_port_good,
                   held, pc, tick, call_w, coinVars>>

\* plugin.py:366-380
AddWallet(t, w, password) ==
    /\ pc[t] = "idle"
    /\ attached' = [attached EXCEPT ![w] = TRUE]
    /\ fusions' = [fusions EXCEPT ![w] = {}]
    /\ fusions_auto' = [fusions_auto EXCEPT ![w] = {}]
    /\ LET e == enable_autofusing(autofusing_wallets, autofuse, w, password)
       IN IF ~autofuse[w]
          THEN /\ UNCHANGED <<autofusing_wallets, autofuse>>
               /\ last' = [Ev("add_wallet", w, "plain") EXCEPT
                             !.access = {RoundsAccess(w)}, !.locks = held[t]]
          ELSE /\ autofusing_wallets' = IF e.raised = "" THEN e.registry
                                        ELSE RegPop(autofusing_wallets, w)
               /\ autofuse' = IF e.raised = "" THEN e.autofuse
                              ELSE [autofuse EXCEPT ![w] = FALSE]
               /\ last' = [Ev("add_wallet", w, IF e.raised = "" THEN "enabled"
                                               ELSE "disabled") EXCEPT
                             !.access = {RoundsAccess(w), RegistryAccess},
                             !.locks = held[t]]
    /\ status' = Collect(status, fusions', fusions_auto')
    /\ UNCHANGED <<stopping, active, tor_port_good, held, pc, tick, call_w, coinVars>>

\* plugin.py:384: the locks remove_wallet holds at its pop
RemoveWalletPopLocks_Nested(t, w) == Acquire(Acquire(held, t, w), t, "plugin")

RemoveWalletPopLocks(t, w) == Acquire(held, t, "plugin")

\* plugin.py:384-385
RemoveWalletPop(t, w) ==
    /\ pc[t] = "idle"
    /\ LET inside == RemoveWalletPopLocks(t, w)
       IN /\ \A l \in Range(inside[t]) : Free(t, l)
          /\ last' = [Ev("remove_wallet_pop", w, "ok") EXCEPT
                        !.access = {RegistryAccess}, !.locks = inside[t]]
    /\ autofusing_wallets' = RegPop(autofusing_wallets, w)
    /\ pc' = [pc EXCEPT ![t] = "remove_popped"]
    /\ call_w' = w
    /\ UNCHANGED <<autofuse, attached, fusions, fusions_auto, status, stopping, active,
                   tor_port_good, held, tick, coinVars>>

\* every round of wallet._fusions, the ones that are over included
RemoveWalletReturn_All(w) == IF attached[w] THEN fusions[w] ELSE {}

\* plugin.py:387 and 392: the rounds remove_wallet returns; a wallet without the
\* attribute _fusions gives ()
RemoveWalletReturn(w) ==
    IF attached[w] THEN {f \in fusions[w] : status[f] \notin Finished} ELSE {}

\* plugin.py:386-392.  The rounds of the wallet go to the caller, the ones not
\* over in the list returned; nothing of the plugin refers to them any more and
\* they are followed no further.
RemoveWalletDetach(t) ==
    /\ pc[t] = "remove_popped"
    /\ Free(t, call_w)
    /\ attached' = [attached EXCEPT ![call_w] = FALSE]
    /\ fusions' = [fusions EXCEPT ![call_w] = {}]
    /\ fusions_auto' = [fusions_auto EXCEPT ![call_w] = {}]
    /\ pc' = [pc EXCEPT ![t] = "idle"]
    /\ call_w' = "-"
    \* "absent": the wallet had no round sets (never added, or removed before)
    /\ last' = [Ev("remove_wallet", call_w, IF attached[call_w] THEN "ok" ELSE "absent")
                  EXCEPT
                  !.ret = RemoveWalletReturn(call_w),
                  !.access = {RoundsAccess(call_w)},
                  !.locks = Acquire(held, t, call_w)[t]]
    /\ status' = [f \in Rounds |-> IF f \in fusions[call_w] \cup fusions_auto[call_w]
                                    THEN "none" ELSE status[f]]
    /\ stopping' = [f \in Rounds |-> IF f \in fusions[call_w] \cup fusions_auto[call_w]
                                    THEN FALSE ELSE stopping[f]]
    /\ UNCHANGED <<autofusing_wallets, autofuse, active, tor_port_good,
                   held, tick, coinVars>>

\* plugin.py:260-261, the thread Fusion-scan_torport_initial: it runs once, and
\* tor_port_good exists from then on
ScanTorportInitial ==
    /\ tor_port_good = "unset"
    /\ \E tor_port_auto \in BOOLEAN, env \in ProbeEnvs :
           tor_port_good' = scan_torport(tor_port_auto, env)
    /\ last' = Ev("scan_torport", "-", "ok")
    /\ UNCHANGED <<autofusing_wallets, autofuse, attached, fusions, fusions_auto, status,
                   stopping, active, held, pc, tick, call_w, coinVars>>

-----------------------------------------------------------------------------
(* The rounds' own life, on their own threads (the round executor) *)

\* a waiting round that was not asked to stop enters the protocol
RoundRun(f) ==
    /\ status[f] = "waiting"
    /\ ~stopping[f]
    /\ status' = [status EXCEPT ![f] = "running"]
    /\ last' = Ev("round_run", "-", "ok")
    /\ UNCHANGED <<autofusing_wallets, autofuse, attached, fusions, fusions_auto,
                   stopping, active, tor_port_good, held, pc, tick, call_w, coinVars>>

\* a running round completes or fails; a waiting round fails (stopped, or the
\* inactivity timeout)
RoundEnd(f, how) ==
    /\ \/ status[f] = "running"
       \/ status[f] = "waiting" /\ how = "failed"
    /\ status' = Collect([status EXCEPT ![f] = how], fusions, fusions_auto)
    \* nothing reads the flag of a round that is over
    /\ stopping' = [stopping EXCEPT ![f] = FALSE]
    /\ last' = Ev("round_end", "-", how)
    /\ UNCHANGED <<autofusing_wallets, autofuse, attached, fusions, fusions_auto,
                   active, tor_port_good, held, pc, tick, call_w, coinVars>>

\* a round that is over is destroyed: the weak sets lose it
RoundCollected(f) ==
    /\ status[f] \in Finished
    /\ status' = [status EXCEPT ![f] = "none"]
    /\ stopping' = [stopping EXCEPT ![f] = FALSE]
    /\ fusions' = [w \in Wallets |-> fusions[w] \ {f}]
    /\ fusions_auto' = [w \in Wallets |-> fusions_auto[w] \ {f}]
    /\ last' = Ev("round_collected", "-", "ok")
    /\ UNCHANGED <<autofusing_wallets, autofuse, attached, active, tor_port_good, held,
                   pc, tick, call_w, coinVars>>

-----------------------------------------------------------------------------
(* SpecCoins: select_coins on bounded wallet contents *)

NoSelection == [eligible |-> <<>>, ineligible |-> <<>>, sum_value |-> -1,
                has_unconfirmed |-> FALSE, has_coinbase |-> FALSE]

NoWallet == WalletView(<<>>, 0, FALSE)

\* no call made: the value of arg and ret outside SpecSample and SpecParams
NoCall == [op |-> "-"]

\* the chain height of the wallets of SpecCoins
CoinsLocalHeight == 150

\* the chain heights of the wallets of SpecCoins: CoinsLocalHeight, and the two
\* heights that put the maturity threshold of plugin.py:104 at 0 and at -1
LocalHeights == {CoinsLocalHeight, COINBASE_MATURITY - 1, COINBASE_MATURITY - 2}

\* The coins a bucket is built from: plain, unconfirmed, token, frozen, a
\* coinbase at the last mature height and one at the first immature height
\* of a chain of CoinsLocalHeight blocks (when coinbase coins are allowed), and
\* a coinbase at height 0 and one at height -1.
CoinKinds == {"plain", "unconfirmed", "slp", "frozen", "cb_mature", "cb_immature",
              "cb_zero", "cb_negative"}

KindCoin(a, n, kind) ==
    Coin(a, n, 1000 + n,
         CASE kind = "unconfirmed" -> 0
           [] kind = "cb_mature" -> CoinsLocalHeight + 1 - COINBASE_MATURITY
           [] kind = "cb_immature" -> CoinsLocalHeight + 2 - COINBASE_MATURITY
           [] kind = "cb_zero" -> 0
           [] kind = "cb_negative" -> -1
           [] OTHER -> 10,
         kind \in {"cb_mature", "cb_immature", "cb_zero", "cb_negative"},
         kind = "slp", kind = "frozen")

\* every bucket of at most MaxBucketLen coins, at most MaxSpecial of them not plain
Buckets(a) ==
    UNION {{[k \in 1..n |-> KindCoin(a, k - 1, kinds[k])] :
               kinds \in {ks \in [1..n -> CoinKinds] :
                             Cardinality({k \in 1..n : ks[k] # "plain"}) <= MaxSpecial}} :
           n \in 0..MaxBucketLen}

\* a first address with any bucket, frozen or not, and a second address with
\* one plain coin
CoinWallets ==
    {WalletView(<<Address("a1", frozen, coins, {"t1"}),
                  Address("a2", FALSE, <<KindCoin("a2", 0, "plain")>>, {"t2"})>>,
                local_height, policy) :
        frozen \in BOOLEAN, coins \in Buckets("a1"), policy \in BOOLEAN,
        local_height \in LocalHeights}

InitCoins ==
    /\ autofusing_wallets = <<>>
    /\ autofuse = [w \in Wallets |-> FALSE]
    /\ attached = [w \in Wallets |-> FALSE]
    /\ fusions = [w \in Wallets |-> {}]
    /\ fusions_auto = [w \in Wallets |-> {}]
    /\ status = [f \in Rounds |-> "none"]
    /\ stopping = [f \in Rounds |-> FALSE]
    /\ active = TRUE
    /\ tor_port_good = "unset"
    /\ held = [t \in Threads |-> <<>>]
    /\ pc = [t \in Threads |-> "idle"]
    /\ tick = IdleTick
    /\ call_w = "-"
    \* plugin.py:251
    /\ fusion_server = {}
    /\ last = Ev("init", "-", "ok")
    /\ cw \in CoinWallets
    /\ sel = NoSelection
    /\ arg = NoCall
    /\ ret = NoCall

\* plugin.py:87-141, one call
SelectCoins ==
    /\ sel = NoSelection
    /\ sel' = select_coins(cw)
    /\ last' = Ev("select_coins", "-", "ok")
    /\ UNCHANGED <<autofusing_wallets, autofuse, attached, fusions, fusions_auto, status,
                   stopping, active, tor_port_good, held, pc, tick, call_w, cw,
                   arg, ret, fusion_server>>

NextCoins == SelectCoins

SpecCoins == InitCoins /\ [][NextCoins]_vars

-----------------------------------------------------------------------------
(* SpecSample: select_random_coins on eligible lists as select_coins builds  *)
(* them, for the fractions, shuffles and draws of the bounded sets below     *)

\* the plugin object of the specifications that call a function only
SchedIdle ==
    /\ autofusing_wallets = <<>>
    /\ autofuse = [w \in Wallets |-> FALSE]
    /\ attached = [w \in Wallets |-> FALSE]
    /\ fusions = [w \in Wallets |-> {}]
    /\ fusions_auto = [w \in Wallets |-> {}]
    /\ status = [f \in Rounds |-> "none"]
    /\ stopping = [f \in Rounds |-> FALSE]
    /\ active = TRUE
    /\ tor_port_good = "unset"
    /\ held = [t \in Threads |-> <<>>]
    /\ pc = [t \in Threads |-> "idle"]
    /\ tick = IdleTick
    /\ call_w = "-"
    \* plugin.py:251
    /\ fusion_server = {}

\* most buckets of an eligible list whose draws are all enumerated
MaxSampleBuckets == 2
\* buckets of the eligible lists that reach the cap of DEFAULT_MAX_COINS
CapBuckets == 6

AddrName(k) == "a" \o ToString(k)
TxName(k) == "t" \o ToString(k)

\* address number k with size confirmed plain coins and the given history
PlainAddress(k, size, txids) ==
    Address(AddrName(k), FALSE, [i \in 1..size |-> PlainCoin(AddrName(k), i - 1)], txids)

\* the fractions get_target_params_2 can return: below 0, 0, between, 1, above 1
SampleFractions == {Rat(-1, 10), Rat(0, 1), Rat(1, 2), Rat(1, 1), Rat(3, 2)}

\* wallets of at most MaxSampleBuckets addresses: of 1 or 4 coins with no
\* transaction in two histories, and of 1 coin with a transaction in all
SmallWallets ==
    UNION {{WalletView([k \in 1..n |-> PlainAddress(k, sizes[k], {TxName(k)})],
                       CoinsLocalHeight, FALSE) :
               sizes \in [1..n -> {1, 4}]}
           \cup {WalletView([k \in 1..n |-> PlainAddress(k, 1, {"t0", TxName(k)})],
                            CoinsLocalHeight, FALSE)} :
           n \in 0..MaxSampleBuckets}

\* the sizes of the last two buckets of a wallet of CapBuckets addresses, the
\* others having 4 coins
CapTails == {<<1, 1>>, <<3, 1>>, <<4, 1>>, <<3, 2>>, <<4, 4>>}

\* wallets of CapBuckets addresses with no transaction in two histories
CapWallets ==
    {WalletView([k \in 1..CapBuckets |->
                    PlainAddress(k, IF k <= CapBuckets - 2 THEN 4
                                    ELSE tail[k - (CapBuckets - 2)], {TxName(k)})],
                CoinsLocalHeight, FALSE) :
        tail \in CapTails}

\* values random.random() may return: 0, one below and one above
\* KEEP_LINKED_PROBABILITY and 1/2
SampleDraws == {Rat(0, 1), Rat(1, 20), Rat(99, 100)}

\* the fractions of the calls on a wallet
CallFractions(wallet) ==
    IF wallet \in SmallWallets THEN SampleFractions ELSE {Rat(1, 2), Rat(1, 1)}

\* the draws of one kind (against the fraction, against the linkage) of the
\* calls on a wallet with n eligible buckets: every draw for the small wallets,
\* the same draw for all buckets for the large ones
CallDraws(wallet, n) ==
    IF wallet \in SmallWallets THEN [1..n -> SampleDraws]
    ELSE {[k \in 1..n |-> d] : d \in {Rat(0, 1), Rat(99, 100)}}

InitSample ==
    /\ SchedIdle
    /\ last = Ev("init", "-", "ok")
    /\ sel = NoSelection
    /\ ret = NoCall
    /\ cw \in SmallWallets \cup CapWallets
    /\ LET eligible == select_coins(cw).eligible
       IN \E fraction \in CallFractions(cw) : \E p \in Perms(Len(eligible)) :
          \E u1 \in CallDraws(cw, Len(eligible)) : \E u2 \in CallDraws(cw, Len(eligible)) :
              arg = [op |-> "select_random_coins", fraction |-> fraction,
                     eligible |-> eligible, p |-> p, u1 |-> u1, u2 |-> u2]

\* plugin.py:143-197, one call; ret.eligible is the caller's list after the call
SelectRandomCoins ==
    /\ arg.op = "select_random_coins"
    /\ ret = NoCall
    /\ LET r == select_random_coins(cw, arg.fraction, arg.eligible, arg.p,
                                    arg.u1, arg.u2)
       IN ret' = [op |-> "select_random_coins", result |-> r.result,
                  eligible |-> r.addr_coins]
    /\ last' = Ev("select_random_coins", "-", "ok")
    /\ UNCHANGED <<autofusing_wallets, autofuse, attached, fusions, fusions_auto, status,
                   stopping, active, tor_port_good, held, pc, tick, call_w, cw, sel,
                   arg, fusion_server>>

NextSample == SelectRandomCoins

SpecSample == InitSample /\ [][NextSample]_vars

-----------------------------------------------------------------------------
(* SpecParams: get_target_params_1 and get_target_params_2 on the eligible   *)
(* list of wallets of 0 to MaxParamCoins eligible coins, for every mode      *)

\* most eligible coins of a wallet of SpecParams
MaxParamCoins == 100

\* a wallet with n eligible coins: addresses of 4 coins and one with the rest
ParamWallet(n) ==
    LET full == n \div 4
        rest == n % 4
    IN WalletView([k \in 1..(full + (IF rest = 0 THEN 0 ELSE 1)) |->
                      PlainAddress(k, IF k <= full THEN 4 ELSE rest, {TxName(k)})],
                  CoinsLocalHeight, FALSE)

\* what select_coins returns for ParamWallet(n): every address is eligible
\* (plugin.py:136-137), and the values of the coins are added up (plugin.py:114;
\* coin number i of an address is worth 1000 + i)
ParamEligible(n) ==
    LET addresses == ParamWallet(n).addresses
    IN [k \in 1..Len(addresses) |->
           [addr |-> addresses[k].addr, coins |-> addresses[k].coins]]
ParamValue(n) == 1000 * n + 6 * (n \div 4) + ((n % 4) * ((n % 4) - 1)) \div 2

\* the settings of SpecParams: the three preset modes with the defaults of
\* conf.py:44-46 for the keys they do not read, and custom settings
ParamConfs ==
    {WalletConf(mode, 4, FALSE, <<"fraction", Rat(1, 10)>>) :
        mode \in {"normal", "fan-out", "consolidate"}}
    \cup
    {WalletConf("custom", queued, confirmed_only, selector) :
        queued \in {1, 4}, confirmed_only \in BOOLEAN,
        selector \in {<<"fraction", Rat(1, 10)>>, <<"count", Rat(5, 1)>>,
                      <<"size", Rat(10000, 1)>>}}

InitParams ==
    /\ SchedIdle
    /\ last = Ev("init", "-", "ok")
    /\ sel = NoSelection
    /\ ret = NoCall
    /\ \E n \in 0..MaxParamCoins : \E conf \in ParamConfs :
          /\ cw = ParamWallet(n)
          /\ arg = [op |-> "get_target_params", conf |-> conf,
                    eligible |-> ParamEligible(n), sum_value |-> ParamValue(n)]

\* plugin.py:462 and 470, the two calls of a tick on the same eligible list
GetTargetParams ==
    /\ arg.op = "get_target_params"
    /\ ret = NoCall
    /\ LET p1 == get_target_params_1(arg.conf, arg.eligible)
       IN ret' = [op |-> "get_target_params", target_num_auto |-> p1[1],
                  confirmed_only |-> p1[2],
                  fraction |-> get_target_params_2(arg.conf, arg.eligible,
                                                   arg.sum_value)]
    /\ last' = Ev("get_target_params", "-", "ok")
    /\ UNCHANGED <<autofusing_wallets, autofuse, attached, fusions, fusions_auto, status,
                   stopping, active, tor_port_good, held, pc, tick, call_w, cw, sel,
                   arg, fusion_server>>

NextParams == GetTargetParams

SpecParams == InitParams /\ [][NextParams]_vars

-----------------------------------------------------------------------------
(* Spec *)

Init ==
    /\ autofusing_wallets = <<>>
    \* conf.py:43
    /\ autofuse = [w \in Wallets |-> FALSE]
    /\ attached = [w \in Wallets |-> FALSE]
    /\ fusions = [w \in Wallets |-> {}]
    /\ fusions_auto = [w \in Wallets |-> {}]
    /\ status = [f \in Rounds |-> "none"]
    /\ stopping = [f \in Rounds |-> FALSE]
    /\ active = TRUE
    \* what the scan thread of plugin.py:260-261 found: Spec starts when it has ended
    /\ tor_port_good \in {scan_torport(TRUE, env) : env \in ProbeEnvs}
    /\ held = [t \in Threads |-> <<>>]
    /\ pc = [t \in Threads |-> "idle"]
    /\ tick = IdleTick
    /\ call_w = "-"
    \* plugin.py:251
    /\ fusion_server = {}
    /\ last = Ev("init", "-", "ok")
    /\ cw = NoWallet
    /\ sel = NoSelection
    /\ arg = NoCall
    /\ ret = NoCall

\* the GUI calls enable_autofusing, disable_autofusing and remove_wallet on
\* wallets it has added, and add_wallet on wallets it has not
Next ==
    \/ \E torcount \in TorCounts : TickEnter(torcount)
    \/ TickCooldownBody
    \/ TickNormalBody
    \/ \E w \in Wallets : \E password \in Passwords(w) :
           attached[w] /\ EnableAutofusing("gui", w, password)
    \/ \E w \in Wallets : attached[w] /\ DisableAutofusing("gui", w)
    \/ \E w \in Wallets : \E password \in Passwords(w) :
           ~attached[w] /\ AddWallet("gui", w, password)
    \/ \E w \in Wallets : attached[w] /\ RemoveWalletPop("gui", w)
    \/ RemoveWalletDetach("gui")
    \/ \E f \in Rounds : RoundRun(f)
    \/ \E f \in Rounds : \E how \in Finished : RoundEnd(f, how)
    \/ \E f \in Rounds : RoundCollected(f)

Spec == Init /\ [][Next]_vars

-----------------------------------------------------------------------------
(* SpecStart: one call of start_fusion, for every source and target wallet,  *)
(* every server and Tor setting, every cached port (the window before the    *)
(* initial scan has stored one included) and every probe result              *)

InitStart ==
    /\ autofusing_wallets = <<>>
    /\ autofuse = [w \in Wallets |-> FALSE]
    \* both wallets have been added (plugin.py:370-371)
    /\ attached = [w \in Wallets |-> TRUE]
    /\ fusions = [w \in Wallets |-> {}]
    /\ fusions_auto = [w \in Wallets |-> {}]
    /\ status = [f \in Rounds |-> "none"]
    /\ stopping = [f \in Rounds |-> FALSE]
    /\ active = TRUE
    /\ tor_port_good \in CachedPorts
    /\ held = [t \in Threads |-> <<>>]
    /\ pc = [t \in Threads |-> "idle"]
    /\ tick = IdleTick
    /\ call_w = "-"
    \* plugin.py:251
    /\ fusion_server = {}
    /\ last = Ev("init", "-", "ok")
    /\ cw = NoWallet
    /\ sel = NoSelection
    /\ ret = NoCall
    /\ \E source \in Wallets, target \in Wallets, e \in StartEnvs :
          arg = [op |-> "start_fusion", source_wallet |-> source,
                 target_wallet |-> target, env |-> e, tor |-> tor_port_good]

\* plugin.py:395-420
StartFusion ==
    /\ arg.op = "start_fusion"
    /\ ret = NoCall
    /\ LET out == start_fusion(arg.env, tor_port_good)
           started == out.raised = ""
           f == NewRound
       IN /\ tor_port_good' = out.tor
          /\ status' = IF started THEN [status EXCEPT ![f] = "waiting"] ELSE status
          /\ fusions' = IF started
                        THEN [w \in Wallets |->
                                IF w \in {arg.source_wallet, arg.target_wallet}
                                THEN fusions[w] \cup {f} ELSE fusions[w]]
                        ELSE fusions
          /\ ret' = [op |-> "start_fusion", raised |-> out.raised,
                     probed |-> out.probed, torport |-> out.torport,
                     fusion |-> IF started THEN {f} ELSE {}]
    /\ last' = Ev("start_fusion", arg.source_wallet, "ok")
    /\ UNCHANGED <<autofusing_wallets, autofuse, attached, fusions_auto, stopping,
                   active, held, pc, tick, call_w, cw, sel, arg, fusion_server>>

NextStart == StartFusion

SpecStart == InitStart /\ [][NextStart]_vars

-----------------------------------------------------------------------------
(* SpecSampleAny: select_random_coins on the eligible lists of SpecSample    *)
(* and on lists select_coins does not build, with buckets of more than 4     *)
(* and of more than DEFAULT_MAX_COINS coins                                  *)

\* the bucket sizes of the wallets with large buckets
BigSizes == {<<21>>, <<21, 1>>, <<22, 21>>, <<5, 21, 4>>, <<7, 7, 7>>}

\* wallets of plain confirmed coins with no transaction in two histories
BigWallets ==
    {WalletView([k \in 1..Len(sizes) |-> PlainAddress(k, sizes[k], {TxName(k)})],
                CoinsLocalHeight, FALSE) :
        sizes \in BigSizes}

\* every address with its coins, as a caller may pass them to
\* select_random_coins (plugin.py:143)
AllBuckets(wallet) ==
    [k \in 1..Len(wallet.addresses) |->
        [addr |-> wallet.addresses[k].addr, coins |-> wallet.addresses[k].coins]]

InitSampleAny ==
    /\ SchedIdle
    /\ last = Ev("init", "-", "ok")
    /\ sel = NoSelection
    /\ ret = NoCall
    /\ cw \in SmallWallets \cup CapWallets \cup BigWallets
    /\ LET eligible == IF cw \in BigWallets THEN AllBuckets(cw)
                       ELSE select_coins(cw).eligible
           n == Len(eligible)
           fractions == IF cw \in BigWallets THEN {Rat(0, 1), Rat(1, 2), Rat(1, 1)}
                        ELSE CallFractions(cw)
           draws == IF cw \in BigWallets THEN [1..n -> SampleDraws]
                    ELSE CallDraws(cw, n)
       IN \E fraction \in fractions : \E p \in Perms(n) :
          \E u1 \in draws : \E u2 \in draws :
              arg = [op |-> "select_random_coins", fraction |-> fraction,
                     eligible |-> eligible, p |-> p, u1 |-> u1, u2 |-> u2]

SpecSampleAny == InitSampleAny /\ [][NextSample]_vars

-----------------------------------------------------------------------------
(* SpecScan: the Tor port cache from the plugin's construction on: calls of  *)
(* scan_torport (the first is the one of the thread started by __init__),    *)
(* of get_torport and of start_fusion, in any order, for every Tor port mode *)
(* and every answer of the probes                                            *)

\* what the probes of one scan may find, the Tor controller's port included
ScanEnvs == [tc : BOOLEAN, up : SUBSET ({"tc"} \cup Range(TOR_PORTS))]

InitScan ==
    /\ autofusing_wallets = <<>>
    /\ autofuse = [w \in Wallets |-> FALSE]
    \* both wallets have been added (plugin.py:370-371)
    /\ attached = [w \in Wallets |-> TRUE]
    /\ fusions = [w \in Wallets |-> {}]
    /\ fusions_auto = [w \in Wallets |-> {}]
    /\ status = [f \in Rounds |-> "none"]
    /\ stopping = [f \in Rounds |-> FALSE]
    /\ active = TRUE
    \* plugin.py:250-264: neither the class nor __init__ sets tor_port_good
    /\ tor_port_good = "unset"
    /\ held = [t \in Threads |-> <<>>]
    /\ pc = [t \in Threads |-> "idle"]
    /\ tick = IdleTick
    /\ call_w = "-"
    /\ fusion_server = {}
    /\ last = Ev("init", "-", "ok")
    /\ cw = NoWallet
    /\ sel = NoSelection
    /\ arg = NoCall
    /\ ret = NoCall

\* what the calls of SpecScan leave alone
ScanFrame ==
    UNCHANGED <<autofusing_wallets, autofuse, attached, fusions_auto, stopping,
                active, held, pc, tick, call_w, cw, sel, fusion_server>>

\* plugin.py:318-343, one call
ScanTorport(tor_port_auto, env) ==
    /\ tor_port_good' = scan_torport(tor_port_auto, env)
    /\ arg' = [op |-> "scan_torport", tor_port_auto |-> tor_port_auto, env |-> env]
    /\ ret' = [op |-> "scan_torport", raised |-> "",
               port |-> scan_torport(tor_port_auto, env),
               probes |-> ScanProbes(tor_port_auto, env)]
    /\ last' = Ev("scan_torport", "-", "ok")
    /\ UNCHANGED <<fusions, status>>
    /\ ScanFrame

\* plugin.py:297-303, one call: reading tor_port_good before any scan has set
\* it raises AttributeError
GetTorport(tor_port_auto) ==
    /\ LET port == get_torport(tor_port_auto, tor_port_good)
       IN ret' = IF port = "unset"
                 THEN [op |-> "get_torport", raised |-> "AttributeError", port |-> "-"]
                 ELSE [op |-> "get_torport", raised |-> "", port |-> port]
    /\ arg' = [op |-> "get_torport", tor_port_auto |-> tor_port_auto]
    /\ last' = Ev("get_torport", "-", "ok")
    /\ UNCHANGED <<tor_port_good, fusions, status>>
    /\ ScanFrame

\* plugin.py:395-420, one call of start_fusion(source_wallet, ...) with the
\* default target
StartFusionCall(source, e) ==
    /\ LET out == start_fusion(e, tor_port_good)
           started == out.raised = ""
           f == NewRound
       IN /\ started => \E g \in Rounds : status[g] = "none"
          /\ tor_port_good' = out.tor
          /\ status' = IF started THEN [status EXCEPT ![f] = "waiting"] ELSE status
          /\ fusions' = IF started THEN [fusions EXCEPT ![source] = @ \cup {f}]
                        ELSE fusions
          /\ ret' = [op |-> "start_fusion", raised |-> out.raised,
                     probed |-> out.probed, torport |-> out.torport,
                     fusion |-> IF started THEN {f} ELSE {}]
    /\ arg' = [op |-> "start_fusion", source_wallet |-> source,
               target_wallet |-> source, env |-> e, tor |-> tor_port_good]
    /\ last' = Ev("start_fusion", source, "ok")
    /\ ScanFrame

NextScan ==
    \/ \E tor_port_auto \in BOOLEAN, env \in ScanEnvs : ScanTorport(tor_port_auto, env)
    \/ \E tor_port_auto \in BOOLEAN : GetTorport(tor_port_auto)
    \/ \E source \in Wallets, e \in StartEnvs : StartFusionCall(source, e)

SpecScan == InitScan /\ [][NextScan]_vars

-----------------------------------------------------------------------------
(* SpecClient: the plugin under a client that calls enable_autofusing,       *)
(* disable_autofusing and remove_wallet on any wallet, added or not, and     *)
(* remove_wallet again on a wallet it has removed.  The ticks are the ones   *)
(* of the normal band, with the Tor port found.                              *)

InitClient ==
    /\ Init
    /\ tor_port_good = TOR_PORTS[2]

NextClient ==
    \/ TickEnter(AUTOFUSE_RECENT_TOR_LIMIT_LOWER)
    \/ TickNormalBody
    \/ \E w \in Wallets : \E password \in Passwords(w) :
           EnableAutofusing("gui", w, password)
    \/ \E w \in Wallets : DisableAutofusing("gui", w)
    \/ \E w \in Wallets : \E password \in Passwords(w) :
           ~attached[w] /\ AddWallet("gui", w, password)
    \/ \E w \in Wallets : RemoveWalletPop("gui", w)
    \/ RemoveWalletDetach("gui")
    \/ \E f \in Rounds : RoundRun(f)
    \/ \E f \in Rounds : \E how \in Finished : RoundEnd(f, how)
    \/ \E f \in Rounds : RoundCollected(f)

SpecClient == InitClient /\ [][NextClient]_vars

-----------------------------------------------------------------------------
(* SpecServer: the local fusion server and the daemon commands               *)
(* fusion_server_start, fusion_server_stop, fusion_server_status and         *)
(* fusion_server_fuse, called one after the other in any order.  FusionServer *)
(* itself is outside the plugin: its constructor may fail to bind, its start *)
(* and its stop may raise, and it answers start_fuse with a client count.    *)

\* most clients of a waiting pool
MaxPoolSize == 2

\* the values a command returns
RetNone == [kind |-> "None"]
RetStr(text) == [kind |-> "str", text |-> text]
RetInt(n) == [kind |-> "int", n |-> n]
RetHostPort(host, port) == [kind |-> "tuple", host |-> host, port |-> port]
RetPools(poolsizes) == [kind |-> "dict", poolsizes |-> poolsizes]

\* int(s) for the strings a command line may carry: ok is false when int()
\* raises ValueError
PyInt(s) ==
    CASE s = "8787" -> [ok |-> TRUE, n |-> 8787]
      [] s = "8788" -> [ok |-> TRUE, n |-> 8788]
      [] s = "10000" -> [ok |-> TRUE, n |-> 10000]
      [] s = "20000" -> [ok |-> TRUE, n |-> 20000]
      [] OTHER -> [ok |-> FALSE, n |-> 0]

\* what a start of the server meets outside the plugin: the error of get_upnp
\* ("" when it returns the UPnP object, plugin.py:68-84), FusionServer's
\* constructor raising, FusionServer.start raising
ServerEnvs ==
    [upnp_error : {"", "can't find UPnP server"}, bind_fails : BOOLEAN,
     start_fails : BOOLEAN]

\* plugin.py:487-492 with the check of 488-489 left out
start_fusion_server_Replace(server, bindhost, port, env) ==
    [raised |-> "", server |-> {[host |-> bindhost, port |-> port]},
     ret |-> RetHostPort(bindhost, port)]

\* plugin.py:487-492: the message of the exception raised ("" when it returns),
\* fusion_server after, and the pair returned
start_fusion_server(server, bindhost, port, env) ==
    IF server # {}
    THEN [raised |-> "server already running", server |-> server, ret |-> RetNone]
    ELSE IF env.bind_fails
    THEN [raised |-> "Address already in use", server |-> server, ret |-> RetNone]
    ELSE LET new == [host |-> bindhost, port |-> port]
         IN IF env.start_fails
            THEN [raised |-> "can't start new thread", server |-> {new},
                  ret |-> RetNone]
            ELSE [raised |-> "", server |-> {new},
                  ret |-> RetHostPort(new.host, new.port)]

\* plugin.py:494-499: fusion_server after; stop_fails is FusionServer.stop
\* raising.  Without a server the call of stop on None raises AttributeError,
\* which the handler swallows like any other exception.
stop_fusion_server(server, stop_fails) ==
    IF server = {} THEN server
    ELSE IF stop_fails THEN server
    ELSE {}

\* plugin.py:513-530: the value returned and fusion_server after
fusion_server_start(server, network, subargs, env) ==
    LET bindhost == IF Len(subargs) >= 1 THEN subargs[1] ELSE "0.0.0.0"
        sport == IF Len(subargs) >= 2 THEN subargs[2] ELSE "8787"
        upnp_str == IF Len(subargs) >= 3 THEN subargs[3] ELSE "None"
        port == PyInt(sport)
        error(msg) == [ret |-> RetStr("error: " \o msg), server |-> server]
    IN IF ~network
       THEN [ret |-> RetStr("error: cannot run fusion server without an SPV server connection"),
             server |-> server]
       ELSE IF Len(subargs) > 3
       THEN error("invoke() takes from 0 to 3 positional arguments but "
                  \o ToString(Len(subargs)) \o " were given")
       ELSE IF ~port.ok
       THEN error("invalid literal for int() with base 10: '" \o sport \o "'")
       ELSE IF upnp_str = "upnp" /\ env.upnp_error # ""
       THEN error(env.upnp_error)
       ELSE LET s == start_fusion_server(server, bindhost, port.n, env)
            IN IF s.raised # ""
               THEN [ret |-> RetStr("error: " \o s.raised), server |-> s.server]
               ELSE [ret |-> s.ret, server |-> s.server]

\* plugin.py:533-535
fusion_server_stop(server, stop_fails) ==
    [ret |-> RetStr("ok"), server |-> stop_fusion_server(server, stop_fails)]

\* plugin.py:538-541: poolsizes is the size of every waiting pool of the server
fusion_server_status(server, poolsizes) ==
    IF server = {} THEN RetStr("fusion server not running")
    ELSE RetPools(poolsizes)

\* plugin.py:544-552: the value returned and the exception raised; matched is
\* what FusionServer.start_fuse answers
fusion_server_fuse(server, subargs, matched) ==
    IF server = {} THEN [ret |-> RetNone, raised |-> ""]
    ELSE IF Len(subargs) # 1 THEN [ret |-> RetStr("expecting tier"), raised |-> ""]
    ELSE IF ~PyInt(subargs[1]).ok THEN [ret |-> RetNone, raised |-> "ValueError"]
    ELSE [ret |-> RetInt(matched), raised |-> ""]

\* config.get('subargs', ()) of fusion_server_start: the defaults, a host, a
\* host and a port, a port that is no number, the upnp flag, one argument too many
StartSubargs ==
    {<<>>, <<"127.0.0.1">>, <<"127.0.0.1", "8788">>, <<"0.0.0.0", "abc">>,
     <<"0.0.0.0", "8787", "upnp">>, <<"0.0.0.0", "8787", "upnp", "x">>}

\* config.get('subargs', ()) of fusion_server_fuse
FuseSubargs == {<<>>, <<"10000">>, <<"x">>, <<"10000", "20000">>}

Tiers == {10000, 20000}
PoolSizes == [Tiers -> 0..MaxPoolSize]

InitServer ==
    /\ SchedIdle
    /\ last = Ev("init", "-", "ok")
    /\ cw = NoWallet
    /\ sel = NoSelection
    /\ arg = NoCall
    /\ ret = NoCall

\* what the daemon commands leave alone
ServerFrame ==
    UNCHANGED <<autofusing_wallets, autofuse, attached, fusions, fusions_auto, status,
                stopping, active, tor_port_good, held, pc, tick, call_w, cw, sel>>

FusionServerStart(network, subargs, env) ==
    /\ LET r == fusion_server_start(fusion_server, network, subargs, env)
       IN /\ fusion_server' = r.server
          /\ ret' = [op |-> "fusion_server_start", result |-> r.ret, raised |-> ""]
    /\ arg' = [op |-> "fusion_server_start", network |-> network,
               subargs |-> subargs, env |-> env]
    /\ last' = Ev("fusion_server_start", "-", "ok")
    /\ ServerFrame

FusionServerStop(stop_fails) ==
    /\ LET r == fusion_server_stop(fusion_server, stop_fails)
       IN /\ fusion_server' = r.server
          /\ ret' = [op |-> "fusion_server_stop", result |-> r.ret, raised |-> ""]
    /\ arg' = [op |-> "fusion_server_stop", stop_fails |-> stop_fails]
    /\ last' = Ev("fusion_server_stop", "-", "ok")
    /\ ServerFrame

FusionServerStatus(poolsizes) ==
    /\ fusion_server' = fusion_server
    /\ ret' = [op |-> "fusion_server_status",
               result |-> fusion_server_status(fusion_server, poolsizes),
               raised |-> ""]
    /\ arg' = [op |-> "fusion_server_status", poolsizes |-> poolsizes]
    /\ last' = Ev("fusion_server_status", "-", "ok")
    /\ ServerFrame

FusionServerFuse(subargs, matched) ==
    /\ LET r == fusion_server_fuse(fusion_server, subargs, matched)
       IN ret' = [op |-> "fusion_server_fuse", result |-> r.ret, raised |-> r.raised]
    /\ fusion_server' = fusion_server
    /\ arg' = [op |-> "fusion_server_fuse", subargs |-> subargs, matched |-> matched]
    /\ last' = Ev("fusion_server_fuse", "-", "ok")
    /\ ServerFrame

NextServer ==
    \/ \E network \in BOOLEAN, subargs \in StartSubargs, env \in ServerEnvs :
           FusionServerStart(network, subargs, env)
    \/ \E stop_fails \in BOOLEAN : FusionServerStop(stop_fails)
    \/ \E poolsizes \in PoolSizes : FusionServerStatus(poolsizes)
    \/ \E subargs \in FuseSubargs, matched \in 0..MaxPoolSize :
           FusionServerFuse(subargs, matched)

SpecServer == InitServer /\ [][NextServer]_vars

-----------------------------------------------------------------------------
(* SpecClose: Spec with the plugin's on_close, called by the GUI thread at   *)
(* any moment, a tick being under way or not                                 *)

\* plugin.py:266-269, called once
OnClose(t) ==
    /\ pc[t] = "idle"
    /\ active
    /\ \E stop_fails \in BOOLEAN :
           fusion_server' = stop_fusion_server(fusion_server, stop_fails)
    /\ active' = FALSE
    /\ last' = Ev("on_close", "-", "ok")
    /\ UNCHANGED <<autofusing_wallets, autofuse, attached, fusions, fusions_auto, status,
                   stopping, tor_port_good, held, pc, tick, call_w, cw, sel, arg, ret>>

NextClose ==
    \/ Next
    \/ OnClose("gui")

SpecClose == Init /\ [][NextClose]_vars

-----------------------------------------------------------------------------
(* Properties *)

\* the locks of a stack are taken in the order plugin -> wallet -> round
Ordered(stack) ==
    \A i, j \in 1..Len(stack) : i < j => LockRank(stack[i]) < LockRank(stack[j])

\* C1: in every interleaving of the tick, remove_wallet, enable_autofusing,
\* disable_autofusing and start_fusion, a thread takes its locks in the order
\* plugin lock -> wallet lock -> round lock: the locks a step holds, and the
\* locks a thread keeps between steps, are never out of that order.
C1_LockOrder ==
    /\ Ordered(last.locks)
    /\ \A t \in Threads : Ordered(held[t])

\* the tick has started a round with the plugin lock and then the wallet's lock
C1_Witness ==
    /\ last.op = "run_wallet"
    /\ last.result = "started"
    /\ last.locks = <<"plugin", last.w>>
    /\ pc["gui"] = "remove_popped"

\* C2: every read or write of autofusing_wallets by enable_autofusing,
\* disable_autofusing, add_wallet, remove_wallet and the tick is made by a thread
\* that holds the plugin lock.
C2_RegistryUnderPluginLock ==
    \A a \in last.access : a.obj = "registry" => "plugin" \in Range(last.locks)

\* C3: every read or write of a wallet's _fusions and _fusions_auto by add_wallet,
\* remove_wallet, disable_autofusing, start_fusion and the tick is made by a thread
\* that holds that wallet's lock.
C3_RoundsUnderWalletLock ==
    \A a \in last.access : a.obj = "rounds" => a.w \in Range(last.locks)

\* the steps of the scheduler tick and of disable_autofusing
StopperOps == {"run", "run_cooldown", "run_wallet", "disable_autofusing", "add_wallet"}

\* C4: every stop request of the tick and of disable_autofusing has
\* not_if_running = True, and a round that is running before such a step is
\* running after it, without a stop pending.
C4_RunningNeverInterrupted ==
    [][/\ \A r \in last'.stops : r[2] = TRUE
       /\ last'.op \in StopperOps =>
              \A f \in Rounds : status[f] = "running" =>
                    status'[f] = "running" /\ ~stopping'[f]]_vars

\* the cooldown loop has asked a running round to stop, and it is running still
C4_Witness ==
    /\ last.op = "run_cooldown"
    /\ \E f \in Rounds : /\ <<f, TRUE>> \in last.stops
                         /\ status[f] = "running"
                         /\ ~stopping[f]

\* C5: in a tick whose Tor count is above AUTOFUSE_RECENT_TOR_LIMIT_UPPER, the
\* step of each autofusing wallet asks every auto round of the wallet that is not
\* over and not stopping to stop with not_if_running = True (a waiting one is
\* stopping afterwards), the tick goes on to the next wallet of its snapshot,
\* and nothing starts a round while that tick lasts.
C5_Cooldown ==
    [][/\ (last'.op = "run_cooldown" /\ last'.result = "ok") =>
              \A f \in fusions_auto[last'.w] :
                  (status[f] \notin Finished /\ ~stopping[f]) =>
                      /\ <<f, TRUE>> \in last'.stops
                      /\ status[f] = "waiting" => stopping'[f]
       /\ (last'.op = "run_cooldown" /\ last'.result = "ok"
             /\ tick.i < Len(tick.snapshot)) =>
              /\ pc'["plugins"] = "cooldown"
              /\ tick'.i = tick.i + 1
       /\ (pc["plugins"] # "idle"
             /\ tick.torcount > AUTOFUSE_RECENT_TOR_LIMIT_UPPER) =>
              /\ last'.started = {}
              /\ \A f \in Rounds : status[f] = "none" => status'[f] = "none"
              /\ \A w \in Wallets : fusions_auto'[w] \subseteq fusions_auto[w]]_vars

\* the cooldown loop has stopped a waiting round of each of two wallets, and
\* ended
C5_Witness ==
    /\ last.op = "run_cooldown"
    /\ tick = IdleTick
    /\ Len(autofusing_wallets) = 2
    /\ last.w = autofusing_wallets[2].wallet
    /\ \E f \in fusions_auto[last.w] : <<f, TRUE>> \in last.stops
    /\ \A w \in Wallets : \E f \in fusions_auto[w] : status[f] = "waiting" /\ stopping[f]

\* C6: a call of disable_autofusing on an attached wallet leaves the wallet out
\* of the registry and its autofuse flag off, asks every auto round of the wallet
\* to stop with not_if_running = True so that the waiting ones are stopping,
\* leaves the running ones running with no stop pending, and returns exactly the
\* wallet's auto rounds that are running.
C6_Disable ==
    [][(last'.op = "disable_autofusing" /\ last'.result = "ok") =>
          LET w == last'.w
          IN /\ ~InRegistry(autofusing_wallets', w)
             /\ ~autofuse'[w]
             /\ status' = status
             /\ \A f \in fusions_auto[w] :
                   /\ status[f] = "waiting" =>
                          <<f, TRUE>> \in last'.stops /\ stopping'[f]
                   /\ status[f] = "running" => stopping'[f] = stopping[f]
             /\ \A r \in last'.stops : r[2] = TRUE
             /\ last'.ret = {f \in fusions_auto[w] : status[f] = "running"}]_vars

\* disable_autofusing has met one waiting and one running auto round
C6_Witness ==
    /\ last.op = "disable_autofusing"
    /\ \E f, g \in fusions_auto[last.w] :
          /\ last.ret = {f}
          /\ status[f] = "running" /\ ~stopping[f]
          /\ status[g] = "waiting" /\ stopping[g]

\* C7: when start_fusion fails for want of a Tor port at a wallet that is not
\* the last of the tick, the tick goes on to the next wallet.
C7_TorFailureSkipsOneWallet ==
    [][(/\ last'.op = "run_wallet"
        /\ last'.result = "tor_unavailable"
        /\ pc["plugins"] = "normal"
        /\ tick.i < Len(tick.snapshot)) =>
          /\ pc'["plugins"] = "normal"
          /\ tick'.i = tick.i + 1]_vars

\* C8: whatever makes start_fusion fail in a tick, the tick lets no exception
\* out.
C8_NoStartFailurePropagates ==
    (last.op = "run_wallet" /\ last.result \in {"tor_unavailable", "start_failed"})
        => last.raised = ""

\* the coins of the address, as a set
BucketCoins(a) == Range(a.coins)

\* C9: the coins the tick passes to start_fusion are whole buckets that
\* select_coins has put in its eligible list for the wallet as the tick saw it:
\* no coin twice, no token coin, no frozen coin, no coin of a frozen address, and
\* of every address all the coins or none.
C9_WholeEligibleBuckets ==
    (last.op = "run_wallet" /\ last.view # 0) =>
        LET view == SchedViews[last.view]
            eligible == select_coins(view).eligible
            passed == Range(last.coins)
        IN /\ last.coins # <<>>
           /\ Cardinality(passed) = Len(last.coins)
           /\ \A c \in passed : \E k \in 1..Len(eligible) : c \in Range(eligible[k].coins)
           /\ \A c \in passed : ~c.slp_token /\ ~c.is_frozen_coin
           /\ \A k \in 1..Len(view.addresses) :
                 LET a == view.addresses[k]
                 IN /\ a.frozen => BucketCoins(a) \cap passed = {}
                    /\ \/ BucketCoins(a) \subseteq passed
                       \/ BucketCoins(a) \cap passed = {}

\* a round was started with the coins of two addresses, three coins in all
C9_Witness ==
    /\ last.op = "run_wallet"
    /\ last.result = "started"
    /\ Len(last.coins) = 3

\* the bucket is an entry of the list
Listed(list, a) ==
    \E k \in 1..Len(list) : list[k].addr = a.addr /\ list[k].coins = a.coins

\* the five conditions: address not frozen, at most 4 coins, no token coin, no
\* frozen coin, every coinbase coin mature
C10_Five(wallet, a) ==
    /\ ~a.frozen
    /\ Len(a.coins) <= 4
    /\ \A c \in Range(a.coins) :
          /\ ~c.slp_token
          /\ ~c.is_frozen_coin
          /\ c.coinbase => c.height <= mincbheight(wallet)

\* every coin of the bucket is confirmed
C10_Confirmed(a) == \A c \in Range(a.coins) : c.height > 0

WithCoins(wallet) ==
    {k \in 1..Len(wallet.addresses) : wallet.addresses[k].coins # <<>>}

\* C11: the eligible and the ineligible list of select_coins share no address;
\* every address with at least one coin is in exactly one entry of the two
\* lists, with all of its coins; no entry is without coins or of an address
\* the wallet has no coin on.
C11_Partition ==
    sel # NoSelection =>
        LET all == sel.eligible \o sel.ineligible
        IN /\ \A i \in 1..Len(sel.eligible) : \A j \in 1..Len(sel.ineligible) :
                  sel.eligible[i].addr # sel.ineligible[j].addr
           /\ \A k \in WithCoins(cw) :
                  LET a == cw.addresses[k]
                      at == {i \in 1..Len(all) : all[i].addr = a.addr}
                  IN /\ Cardinality(at) = 1
                     /\ \A i \in at : all[i].coins = a.coins
           /\ \A i \in 1..Len(all) :
                  /\ all[i].coins # <<>>
                  /\ \E k \in WithCoins(cw) : cw.addresses[k].addr = all[i].addr

\* one address is listed as eligible, the other as ineligible
C11_Witness ==
    /\ sel # NoSelection
    /\ Len(sel.eligible) = 1
    /\ Len(sel.ineligible) = 1
    /\ Len(cw.addresses[1].coins) >= 2

\* unfrozen address, no token coin, no frozen coin, all confirmed, no coinbase
OtherwiseQualifying(a) ==
    /\ ~a.frozen
    /\ \A c \in Range(a.coins) :
          ~c.slp_token /\ ~c.is_frozen_coin /\ c.height > 0 /\ ~c.coinbase

C13_Coinbase ==
    sel # NoSelection =>
        \A k \in WithCoins(cw) :
            LET a == cw.addresses[k]
                cb == {c \in Range(a.coins) : c.coinbase}
            IN cb # {} =>
                  /\ Listed(sel.eligible, a) =>
                        /\ cw.autofuse_coinbase
                        /\ \A c \in cb :
                              c.height <= cw.local_height + 1 - COINBASE_MATURITY
                  /\ ~cw.autofuse_coinbase =>
                        ~Listed(sel.eligible, a) /\ Listed(sel.ineligible, a)

\* with the policy off, a lone coinbase coin at height -1 (not above the
\* threshold the policy sets) on an unfrozen address is listed as ineligible
C13_Witness ==
    /\ sel # NoSelection
    /\ ~cw.autofuse_coinbase
    /\ ~cw.addresses[1].frozen
    /\ Len(cw.addresses[1].coins) = 1
    /\ cw.addresses[1].coins[1].coinbase
    /\ cw.addresses[1].coins[1].height <= mincbheight(cw)
    /\ Listed(sel.ineligible, cw.addresses[1])

\* the values of the coins of every address of the wallet, added up
WalletValue(wallet) ==
    SeqSum([k \in 1..Len(wallet.addresses) |->
               SeqSum([i \in 1..Len(wallet.addresses[k].coins) |->
                          wallet.addresses[k].coins[i].value])])

\* C14: the total value select_coins returns is the sum of the values of all
\* coins of all addresses of the wallet, each counted once, eligible or not.
C14_TotalValue ==
    sel # NoSelection => sel.sum_value = WalletValue(cw)

\* the wallet has coins in an eligible and in an ineligible bucket
C14_Witness ==
    /\ sel # NoSelection
    /\ sel.eligible # <<>>
    /\ Len(sel.ineligible) = 1
    /\ Len(sel.ineligible[1].coins) = 3
    /\ sel.sum_value = WalletValue(cw)

\* the number of coins of a list of coin lists
CoinCount(buckets) == SeqSum([k \in 1..Len(buckets) |-> Len(buckets[k])])

\* what the main loop of the call accepted, before the fallback of the call
LoopAccepted ==
    SampleLoop(cw, arg.fraction, Shuffle(arg.eligible, arg.p), 1, arg.u1, arg.u2,
        [num_coins |-> 0, result |-> <<>>, result_txids |-> {}]).result

\* C15: for every fraction, shuffle and draw, select_random_coins returns at
\* least one coin list, with at least one coin, when the eligible list has a
\* bucket with coins; when the main loop accepted nothing, it returns exactly
\* one list, the coins of one eligible bucket that has coins.
C15_NeverEmpty ==
    (ret.op = "select_random_coins"
        /\ \E k \in 1..Len(arg.eligible) : arg.eligible[k].coins # <<>>) =>
        /\ ret.result # <<>>
        /\ CoinCount(ret.result) >= 1
        /\ LoopAccepted = <<>> =>
              /\ Len(ret.result) = 1
              /\ ret.result[1] # <<>>
              /\ \E k \in 1..Len(arg.eligible) : arg.eligible[k].coins = ret.result[1]

\* with a fraction below 0 and two eligible buckets the loop accepts nothing and
\* one bucket is returned
C15_Witness ==
    /\ ret.op = "select_random_coins"
    /\ Len(arg.eligible) = 2
    /\ arg.fraction.num < 0
    /\ LoopAccepted = <<>>
    /\ Len(ret.result) = 1

\* no transaction is in the histories of two eligible buckets
NoSharedTxid ==
    \A i, j \in 1..Len(arg.eligible) :
        i # j => AddressHistory(cw, arg.eligible[i].addr)
                    \cap AddressHistory(cw, arg.eligible[j].addr) = {}

\* C16: with fraction 1 and no transaction shared between two eligible
\* buckets, select_random_coins returns eligible buckets, none twice: all of
\* them when the eligible coins are at most DEFAULT_MAX_COINS (20), and
\* otherwise at most 20 coins, every bucket left out having more coins than
\* the room the returned ones leave under 20.
C16_FullFraction ==
    (ret.op = "select_random_coins" /\ arg.fraction = Rat(1, 1) /\ NoSharedTxid) =>
        LET n == Len(arg.eligible)
            total == get_n_coins(arg.eligible)
            chosen == {k \in 1..n : \E i \in 1..Len(ret.result) :
                                        ret.result[i] = arg.eligible[k].coins}
        IN /\ Cardinality(chosen) = Len(ret.result)
           /\ \A i \in 1..Len(ret.result) : \E k \in 1..n :
                  ret.result[i] = arg.eligible[k].coins
           /\ total <= DEFAULT_MAX_COINS => chosen = 1..n
           /\ total > DEFAULT_MAX_COINS =>
                  /\ CoinCount(ret.result) <= DEFAULT_MAX_COINS
                  /\ \A k \in (1..n) \ chosen :
                        CoinCount(ret.result) + Len(arg.eligible[k].coins)
                            > DEFAULT_MAX_COINS

\* 21 eligible coins: a bucket of 4 coins is left out and the bucket of 1 coin
\* is returned, 17 coins in all
C16_Witness ==
    /\ ret.op = "select_random_coins"
    /\ arg.fraction = Rat(1, 1)
    /\ NoSharedTxid
    /\ get_n_coins(arg.eligible) = DEFAULT_MAX_COINS + 1
    /\ CoinCount(ret.result) = DEFAULT_MAX_COINS - 3

\* C17: the test of the draw against the fraction never rejects a bucket when
\* the fraction is 1 or more and always rejects it when the fraction is 0 or
\* less, whatever the draw in [0, 1); so with one eligible bucket the main loop
\* accepts it in the first case and accepts nothing in the second.
C17_AcceptanceTest ==
    ret.op = "select_random_coins" =>
        /\ \A k \in 1..Len(arg.eligible) :
              /\ arg.fraction.num >= arg.fraction.den =>
                    ~FractionRejects(arg.u1[k], arg.fraction)
              /\ arg.fraction.num <= 0 => FractionRejects(arg.u1[k], arg.fraction)
        /\ Len(arg.eligible) = 1 =>
              /\ arg.fraction.num >= arg.fraction.den => LoopAccepted # <<>>
              /\ arg.fraction.num <= 0 => LoopAccepted = <<>>

\* C18: after the call the caller's eligible list has the content and the
\* order it had before the call.
C18_CallerListUnchanged ==
    ret.op = "select_random_coins" => ret.eligible = arg.eligible

\* the coins of the eligible list the parameters were computed for
EligibleCoinCount == CoinCount([k \in 1..Len(arg.eligible) |-> arg.eligible[k].coins])

\* C19: in consolidate mode with n eligible coins the target is the integer
\* part of n / 15 (0 for n = 10, 2 for n = 30), confirmed_only is true exactly
\* when the target is at most 1, and the fraction is 1.
C19_Consolidate ==
    (ret.op = "get_target_params" /\ arg.conf.fusion_mode = "consolidate") =>
        LET n == EligibleCoinCount
            t == ret.target_num_auto
        IN /\ 15 * t <= n
           /\ n < 15 * (t + 1)
           /\ ret.confirmed_only <=> t <= 1
           /\ ret.fraction.num = ret.fraction.den
           /\ n = 10 => t = 0 /\ ret.confirmed_only
           /\ n = 30 => t = 2 /\ ~ret.confirmed_only

\* consolidate mode with 30 eligible coins gives target 2, confirmed_only false
C19_Witness ==
    /\ ret.op = "get_target_params"
    /\ arg.conf.fusion_mode = "consolidate"
    /\ EligibleCoinCount = 30
    /\ ret.target_num_auto = 2
    /\ ~ret.confirmed_only

\* C20: in normal mode with n eligible coins the target is the larger of 2 and
\* n / 20 rounded to the nearest integer (to the even one when n / 20 is
\* halfway between two integers, as round() does), so never below 2 and 5 for
\* n = 100; confirmed_only is false and the fraction is 1/2.
C20_Normal ==
    (ret.op = "get_target_params" /\ arg.conf.fusion_mode = "normal") =>
        LET n == EligibleCoinCount
            t == ret.target_num_auto
        IN /\ \E q \in 0..n :
                  /\ 20 * q - 10 <= n
                  /\ n <= 20 * q + 10
                  /\ (n = 20 * q - 10 \/ n = 20 * q + 10) => q % 2 = 0
                  /\ t = IF q >= 2 THEN q ELSE 2
           /\ t >= 2
           /\ n = 100 => t = 5
           /\ ~ret.confirmed_only
           /\ 2 * ret.fraction.num = ret.fraction.den

\* normal mode with 100 eligible coins gives target 5
C20_Witness ==
    /\ ret.op = "get_target_params"
    /\ arg.conf.fusion_mode = "normal"
    /\ EligibleCoinCount = 100
    /\ ret.target_num_auto = 5

\* C21: in custom mode with selector type 'size' the sampling fraction is
\* 10 * amount / total_value when total_value is not 0, and is 0 when
\* total_value is 0.
C21_SizeFraction ==
    (/\ ret.op = "get_target_params"
     /\ arg.conf.fusion_mode = "custom"
     /\ arg.conf.selector[1] = "size") =>
        LET amount == arg.conf.selector[2]
        IN IF arg.sum_value # 0
           THEN \* the quotient, numerator over denominator as Rat keeps it
                ret.fraction = Rat(COIN_FRACTION_FUDGE_FACTOR * amount.num,
                                   arg.sum_value * amount.den)
           ELSE ret.fraction.num = 0

\* the password the registry holds for wallet w ("-" when it holds none)
RegPassword(reg, w) ==
    IF InRegistry(reg, w)
    THEN reg[CHOOSE i \in 1..Len(reg) : reg[i].wallet = w].password
    ELSE "-"

\* the wallet requires a secret and the one supplied is missing or wrong
BadSecret(w, password) == has_password(w) /\ password # "good"

\* C22: enable_autofusing(wallet, secret) fails with InvalidPassword when the
\* wallet requires a secret and the supplied one is missing or wrong, and then
\* the registry and the persisted autofuse flags are exactly as they were;
\* otherwise it returns, the registry holds the secret for the wallet and the
\* wallet's persisted autofuse flag is on.
C22_EnableAutofusing ==
    [][\A w \in Wallets : \A password \in Passwords(w) :
          EnableAutofusing("gui", w, password) =>
              IF BadSecret(w, password)
              THEN /\ last'.raised = "InvalidPassword"
                   /\ autofusing_wallets' = autofusing_wallets
                   /\ autofuse' = autofuse
              ELSE /\ last'.raised = ""
                   /\ RegPassword(autofusing_wallets', w) = password
                   /\ autofuse'[w]]_vars

\* enable_autofusing has failed on a wallet that is in the registry with its
\* valid secret and its flag on: the earlier entry is still there
C22_Witness ==
    /\ last.op = "enable_autofusing"
    /\ last.raised = "InvalidPassword"
    /\ RegPassword(autofusing_wallets, last.w) = "good"
    /\ autofuse[last.w]

\* C23: add_wallet(wallet, secret) attaches empty round sets to the wallet and
\* lets no InvalidPassword out: when the persisted autofuse flag is on and the
\* secret is missing or wrong it returns and the wallet is not in the registry;
\* when the flag is on and the secret is valid the wallet is in the registry;
\* when the flag is off the registry is unchanged.
C23_AddWallet ==
    [][\A w \in Wallets : \A password \in Passwords(w) :
          AddWallet("gui", w, password) =>
              /\ attached'[w]
              /\ fusions'[w] = {}
              /\ fusions_auto'[w] = {}
              /\ last'.raised = ""
              /\ IF ~autofuse[w]
                 THEN autofusing_wallets' = autofusing_wallets
                 ELSE IF BadSecret(w, password)
                 THEN ~InRegistry(autofusing_wallets', w)
                 ELSE InRegistry(autofusing_wallets', w)]_vars

\* add_wallet has caught the InvalidPassword of a wallet whose flag was on: the
\* wallet is attached, with empty round sets, and not in the registry
C23_Witness ==
    /\ last.op = "add_wallet"
    /\ last.result = "disabled"
    /\ last.raised = ""
    /\ attached[last.w]
    /\ fusions[last.w] = {}
    /\ ~InRegistry(autofusing_wallets, last.w)

\* C24: remove_wallet(wallet) leaves the wallet out of the registry and without
\* its two round sets, and returns exactly the rounds that were attached to the
\* wallet and are neither complete nor failed; on a wallet that has no round
\* sets (removed before, or never added) it returns an empty list, and it
\* raises nothing in either case.
C24_RemoveWallet ==
    [][RemoveWalletDetach("gui") =>
          LET w == call_w
          IN /\ last'.op = "remove_wallet"
             /\ last'.raised = ""
             /\ ~InRegistry(autofusing_wallets', w)
             /\ ~attached'[w]
             /\ fusions'[w] = {}
             /\ fusions_auto'[w] = {}
             /\ attached[w] =>
                    last'.ret = {f \in fusions[w] : status[f] \notin Finished}
             /\ ~attached[w] => last'.ret = {}]_vars

\* remove_wallet has returned from a call on a wallet without round sets
C24_Witness ==
    /\ last.op = "remove_wallet"
    /\ last.result = "absent"
    /\ last.raised = ""
    /\ last.ret = {}
    /\ ~InRegistry(autofusing_wallets, last.w)

\* the condition of C25: the server is not the local one, the Tor port mode is
\* automatic, the cached port is None, and no port answers a fresh probe
TorNowhere ==
    /\ ~arg.env.host_local
    /\ arg.env.tor_port_auto
    /\ arg.tor = "None"
    /\ arg.env.probe.up = {}

\* C25: a call of start_fusion (on a source wallet that can be fused from and a
\* target wallet that can be fused to) fails with RuntimeError("can't find tor
\* port") exactly when the server is not the local one, the port mode is
\* automatic, the cached port is None and a fresh probe finds none; then no
\* round is constructed and no wallet's round set changes.  With the local
\* server there is no probe and the round is given no Tor port; in manual mode
\* the round is given the manual port without a probe.
C25_TorUnavailable ==
    ret.op = "start_fusion" =>
        LET e == arg.env
            callable == e.can_fuse_from /\ e.can_fuse_to
        IN /\ ret.raised = "RuntimeError" <=> (callable /\ TorNowhere)
           /\ ret.raised = "RuntimeError" =>
                  /\ ret.fusion = {}
                  /\ \A f \in Rounds : status[f] = "none"
                  /\ \A w \in Wallets : fusions[w] = {}
           /\ (callable /\ e.host_local) =>
                  /\ ~ret.probed
                  /\ ret.raised = ""
                  /\ ret.torport = "None"
                  /\ tor_port_good = arg.tor
           /\ (callable /\ ~e.host_local /\ ~e.tor_port_auto) =>
                  /\ ~ret.probed
                  /\ ret.raised = ""
                  /\ ret.torport = "manual"
                  /\ tor_port_good = arg.tor

\* start_fusion from one wallet to another has failed for want of a Tor port,
\* after a probe, and both wallets' round sets are empty
C25_Witness ==
    /\ ret.op = "start_fusion"
    /\ ret.raised = "RuntimeError"
    /\ ret.probed
    /\ arg.source_wallet # arg.target_wallet
    /\ fusions[arg.source_wallet] = {}
    /\ fusions[arg.target_wallet] = {}

\* a string that begins with "error: "
IsErrorString(r) ==
    /\ r.kind = "str"
    /\ Len(r.text) >= 7
    /\ SubSeq(r.text, 1, 7) = "error: "

\* at most a host, a port and a flag, the port a number
WellFormed(subargs) ==
    /\ Len(subargs) <= 3
    /\ Len(subargs) >= 2 => PyInt(subargs[2]).ok

\* UPnP is there if asked for, the server binds and its thread starts
ServerAble(subargs, env) ==
    /\ (Len(subargs) >= 3 /\ subargs[3] = "upnp") => env.upnp_error = ""
    /\ ~env.bind_fails
    /\ ~env.start_fails

\* C26: fusion_server_start returns the (host, port) of the server and records
\* the server when none is recorded (the network being there, the arguments
\* well formed and the server able to start); when a server is recorded
\* already, or there is no network, or the arguments are malformed, it returns
\* a string that begins with "error: " and leaves fusion_server as it was; at
\* most one server instance is recorded at any time.
C26_ServerStart ==
    [][\A network \in BOOLEAN, subargs \in StartSubargs, env \in ServerEnvs :
          FusionServerStart(network, subargs, env) =>
              LET r == ret'.result
                  rejected == fusion_server # {} \/ ~network \/ ~WellFormed(subargs)
              IN /\ (~rejected /\ ServerAble(subargs, env)) =>
                        /\ r.kind = "tuple"
                        /\ fusion_server = {}
                        /\ fusion_server' = {[host |-> r.host, port |-> r.port]}
                        /\ Len(subargs) >= 1 => r.host = subargs[1]
                        /\ Len(subargs) >= 2 => r.port = PyInt(subargs[2]).n
                 /\ rejected =>
                        /\ IsErrorString(r)
                        /\ fusion_server' = fusion_server
                 /\ Cardinality(fusion_server') <= 1]_vars

\* fusion_server_start has been refused because a server is recorded, which is
\* still the one recorded
C26_Witness ==
    /\ ret.op = "fusion_server_start"
    /\ IsErrorString(ret.result)
    /\ ret.result.text = "error: server already running"
    /\ Cardinality(fusion_server) = 1

\* C27: fusion_server_fuse returns the number of clients matched when the
\* server is running and exactly one tier argument is given, and returns an
\* error (a message, or an exception) both when no tier argument is given and
\* when the server is not running.
C27_ForceRound ==
    [][\A subargs \in FuseSubargs, matched \in 0..MaxPoolSize :
          FusionServerFuse(subargs, matched) =>
              LET r == ret'.result
                  error == r.kind = "str" \/ ret'.raised # ""
              IN /\ (fusion_server # {} /\ Len(subargs) = 1 /\ PyInt(subargs[1]).ok) =>
                        r = RetInt(matched)
                 /\ Len(subargs) = 0 => error
                 /\ fusion_server = {} => error]_vars

\* C28: fusion_server_stop always returns "ok", whether or not a server is
\* running and whether or not the server's stop raises, and after it the
\* status command reports that the server is not running and no call of
\* fusion_server_start is refused as "server already running".
C28_ServerStop ==
    [][\A stop_fails \in BOOLEAN :
          FusionServerStop(stop_fails) =>
              /\ ret'.result = RetStr("ok")
              /\ \A poolsizes \in PoolSizes :
                     fusion_server_status(fusion_server', poolsizes)
                         = RetStr("fusion server not running")
              /\ \A network \in BOOLEAN, subargs \in StartSubargs, env \in ServerEnvs :
                     fusion_server_start(fusion_server', network, subargs, env).ret
                         # RetStr("error: server already running")]_vars

\* C29: a tick that reads a Tor count of at most 60 goes into the normal
\* per-wallet processing of every wallet of the registry; a tick that reads a
\* count from 61 to 120, 120 included, ends at once, having started no round,
\* stopped no round and changed no wallet's auto set; only a tick that reads
\* more than 120 goes into the cooldown loop, and only such a tick makes the
\* cooldown stops.
C29_TorGate ==
    [][/\ \A torcount \in TorCounts :
              TickEnter(torcount) =>
                  /\ torcount <= 60 =>
                         /\ last'.result = "normal"
                         /\ autofusing_wallets # <<>> =>
                                /\ pc'["plugins"] = "normal"
                                /\ tick'.snapshot = autofusing_wallets
                                /\ tick'.i = 1
                  /\ (61 <= torcount /\ torcount <= 120) =>
                         /\ last'.result = "throttled"
                         /\ pc'["plugins"] = "idle"
                         /\ tick' = IdleTick
                         /\ held' = held
                         /\ last'.started = {}
                         /\ last'.stops = {}
                         /\ status' = status
                         /\ stopping' = stopping
                         /\ fusions_auto' = fusions_auto
                  /\ torcount > 120 =>
                         /\ last'.result = "cooldown"
                         /\ autofusing_wallets # <<>> => pc'["plugins"] = "cooldown"
       /\ last'.op = "run_cooldown" => tick.torcount > 120
       /\ last'.op = "run_wallet" => tick.torcount <= 60]_vars

\* a throttled tick has ended with a wallet in the registry whose waiting auto
\* round has not been asked to stop
C29_Witness ==
    /\ last.op = "run"
    /\ last.result = "throttled"
    /\ pc["plugins"] = "idle"
    /\ \E w \in Wallets :
           /\ InRegistry(autofusing_wallets, w)
           /\ \E f \in fusions_auto[w] : status[f] = "waiting" /\ ~stopping[f]

\* the auto rounds of wallet w that are neither complete nor failed
LiveAuto(w) == {f \in fusions_auto[w] : status[f] \notin Finished}

\* C30: the step of a normal tick on a wallet leaves in the wallet's auto set
\* the rounds that were neither complete nor failed, and besides them at most
\* the one round it starts; it starts a round only if the number of those
\* remaining rounds is below the target of the wallet's settings, never when
\* it is the target or more, so that the live auto rounds after a start are at
\* most the target; and a tick visits each wallet of its snapshot once.
C30_StartBelowTarget ==
    [][(/\ pc["plugins"] = "normal"
        /\ last'.op = "run_wallet"
        /\ attached[TickWallet]) =>
          \A vi \in 1..Len(SchedViews), ci \in 1..Len(SchedConfs) :
              \* the step is the one of a wallet with these contents and
              \* settings (the coins sampled are in the step's record)
              (/\ last'.view \in {0, vi}
               /\ TickNormalStep([view |-> vi, conf |-> ci, coins |-> last'.coins])) =>
              LET w == TickWallet
                  live == LiveAuto(w)
                  target == SchedParams[vi][ci][1]
              IN /\ fusions_auto'[w] = live \cup last'.started
                 /\ Cardinality(last'.started) <= 1
                 /\ last'.started \cap live = {}
                 /\ last'.started # {} =>
                        /\ Cardinality(live) < target
                        /\ Cardinality(fusions_auto'[w]) <= target
                 /\ Cardinality(live) >= target => last'.started = {}
                 /\ \A i, j \in 1..Len(tick.snapshot) :
                        tick.snapshot[i].wallet = tick.snapshot[j].wallet => i = j
                 /\ \/ pc'["plugins"] = "idle"
                    \/ tick'.snapshot = tick.snapshot /\ tick'.i = tick.i + 1]_vars

\* a normal tick has left a wallet that has its target of live auto rounds
\* without starting one, a round being free to start
C30_Witness ==
    /\ last.op = "run_wallet"
    /\ last.result = "enough"
    /\ last.started = {}
    /\ LiveAuto(last.w) # {}
    /\ \E f \in Rounds : status[f] = "none"

\* the wallet contents have a coin of height 0 or less
HasUnconfirmedCoin(view) ==
    \E k \in 1..Len(view.addresses) :
        \E i \in 1..Len(view.addresses[k].coins) : view.addresses[k].coins[i].height <= 0

\* C31: the step of a normal tick on a wallet whose settings resolve to
\* confirmed_only and whose contents have a coin of height 0 or less starts no
\* round and asks every auto round of the wallet (the ones neither complete nor
\* failed, which are the ones the step leaves in the auto set) to stop with
\* not_if_running = True, so that the waiting ones are stopping and the running
\* ones are left alone; this both when the live auto rounds are fewer than the
\* target and when they are the target or more.
C31_WaitConfirmed ==
    [][(/\ pc["plugins"] = "normal"
        /\ last'.op = "run_wallet"
        /\ attached[TickWallet]) =>
          \A vi \in 1..Len(SchedViews), ci \in 1..Len(SchedConfs) :
              (/\ SchedParams[vi][ci][2]
               /\ HasUnconfirmedCoin(SchedViews[vi])
               /\ last'.view \in {0, vi}
               /\ TickNormalStep([view |-> vi, conf |-> ci, coins |-> last'.coins])) =>
                  LET w == TickWallet
                      live == LiveAuto(w)
                  IN /\ last'.started = {}
                     /\ fusions_auto'[w] = live
                     /\ last'.stops = {<<f, TRUE>> : f \in live}
                     /\ \A f \in live : status[f] = "waiting" => stopping'[f]
                     /\ \A f \in live : status[f] = "running" => stopping'[f] = stopping[f]
                     /\ status' = status]_vars

\* a normal tick has asked a wallet's waiting auto round to stop because of an
\* unconfirmed coin, when a second round could have been started
C31_Witness ==
    /\ last.op = "run_wallet"
    /\ last.result = "wait_confirmed"
    /\ \E f \in fusions_auto[last.w] :
           /\ <<f, TRUE>> \in last.stops
           /\ status[f] = "waiting"
           /\ stopping[f]
    /\ \E f \in Rounds : status[f] = "none"

\* the candidates of a scan in automatic mode, in the order of C32
ScanCandidates(env) ==
    IF env.tc THEN <<"tc", "9050", "9150">> ELSE <<"9050", "9150">>

\* C32: in automatic mode scan_torport probes the candidates in the order
\* (the Tor controller's active SOCKS port if there is one, 9050, 9150) up to
\* the first that answers, caches that one and returns it; when none answers
\* it caches None and returns None, raising nothing; and a start_fusion that
\* needs a Tor port in automatic mode and finds None cached probes again.
C32_ScanOrder ==
    [][/\ \A env \in ScanEnvs :
              ScanTorport(TRUE, env) =>
                  LET cand == ScanCandidates(env)
                      answers == {k \in 1..Len(cand) : cand[k] \in env.up}
                  IN /\ ret'.raised = ""
                     /\ tor_port_good' = ret'.port
                     /\ answers = {} =>
                            /\ ret'.port = "None"
                            /\ ret'.probes = cand
                     /\ \A k \in answers :
                            (\A j \in answers : k <= j) =>
                                /\ ret'.port = cand[k]
                                /\ ret'.probes = SubSeq(cand, 1, k)
       /\ \A source \in Wallets, e \in StartEnvs :
              (/\ StartFusionCall(source, e)
               /\ tor_port_good = "None"
               /\ e.can_fuse_from /\ e.can_fuse_to
               /\ ~e.host_local
               /\ e.tor_port_auto) =>
                  /\ ret'.probed
                  /\ tor_port_good' = scan_torport(TRUE, e.probe)
                  /\ ret'.raised = "" <=> tor_port_good' # "None"]_vars

\* a scan in automatic mode has passed over the Tor controller's port and 9050,
\* which did not answer, and cached 9150
C32_Witness ==
    /\ ret.op = "scan_torport"
    /\ arg.tor_port_auto
    /\ arg.env.tc
    /\ ret.probes = <<"tc", "9050", "9150">>
    /\ ret.port = "9150"
    /\ tor_port_good = "9150"

\* C33: a bucket holding any coin of height <= 0 is never in the eligible list
\* select_coins returns, whatever its other coins, the address's frozen state,
\* the chain height and the coinbase policy are; so no coin of an eligible
\* bucket, the only coins a round is sampled from, is unconfirmed.
C33_UnconfirmedNeverEligible ==
    sel # NoSelection =>
        /\ \A k \in 1..Len(cw.addresses) :
               (\E c \in Range(cw.addresses[k].coins) : c.height <= 0) =>
                   /\ \A e \in Range(sel.eligible) : e.addr # cw.addresses[k].addr
                   /\ \E e \in Range(sel.ineligible) : e.addr = cw.addresses[k].addr
        /\ \A e \in Range(sel.eligible) : \A c \in Range(e.coins) : c.height > 0

\* select_coins has run on a wallet whose first address, not frozen, holds a
\* plain confirmed coin and then a plain coin of height 0: the bucket is
\* ineligible and the second address's bucket is eligible
C33_Witness ==
    /\ sel # NoSelection
    /\ ~cw.addresses[1].frozen
    /\ Len(cw.addresses[1].coins) = 2
    /\ cw.addresses[1].coins[1].height > 0
    /\ cw.addresses[1].coins[2].height = 0
    /\ \A c \in Range(cw.addresses[1].coins) :
           ~c.coinbase /\ ~c.slp_token /\ ~c.is_frozen_coin
    /\ Len(sel.eligible) = 1
    /\ sel.eligible[1].addr = "a2"

\* the step is a call of enable_autofusing, disable_autofusing, add_wallet or
\* remove_wallet on wallet w
LifecycleStep(w) ==
    /\ last'.w = w
    /\ last'.op \in {"enable_autofusing", "disable_autofusing", "add_wallet",
                     "remove_wallet_pop", "remove_wallet"}

\* the step is an enable_autofusing that returned, called directly or by
\* add_wallet
EnableSucceeded ==
    \/ last'.op = "enable_autofusing" /\ last'.raised = ""
    \/ last'.op = "add_wallet" /\ last'.result = "enabled"

\* the step is a direct enable_autofusing that raised InvalidPassword
EnableFailed == last'.op = "enable_autofusing" /\ last'.raised # ""

\* C34 as stated: a wallet is in the registry exactly when the most recent
\* enable_autofusing, disable_autofusing, add_wallet or remove_wallet on it,
\* failed calls included, was an enable_autofusing that succeeded; and a wallet
\* in the registry has its flag on.
C34_AsStated ==
    [][\A w \in Wallets :
          /\ IF LifecycleStep(w)
             THEN InRegistry(autofusing_wallets', w) <=> EnableSucceeded
             ELSE InRegistry(autofusing_wallets', w) <=> InRegistry(autofusing_wallets, w)
          /\ InRegistry(autofusing_wallets', w) => autofuse'[w]]_vars

\* C34: a wallet is in the registry exactly when the most recent call on it
\* among the enable_autofusing that succeeded (directly or through add_wallet),
\* disable_autofusing, add_wallet and remove_wallet was such an
\* enable_autofusing, a direct enable_autofusing that fails leaving the wallet
\* in or out of the registry as it was; and a wallet in the registry has its
\* persisted autofuse flag on.
C34_Registry ==
    [][\A w \in Wallets :
          /\ IF LifecycleStep(w) /\ ~EnableFailed
             THEN InRegistry(autofusing_wallets', w) <=> EnableSucceeded
             ELSE InRegistry(autofusing_wallets', w) <=> InRegistry(autofusing_wallets, w)
          /\ InRegistry(autofusing_wallets', w) => autofuse'[w]]_vars

\* the wallet with a password is in the registry, its flag on, and the last
\* call on it was an enable_autofusing that raised InvalidPassword
C34_Witness ==
    /\ last.op = "enable_autofusing"
    /\ last.w = "w1"
    /\ last.raised = "InvalidPassword"
    /\ InRegistry(autofusing_wallets, "w1")
    /\ autofuse["w1"]
    /\ ~InRegistry(autofusing_wallets, "w2")

\* C35: once disable_autofusing(wallet) has returned, the scheduler starts no
\* auto round for that wallet and adds nothing to its auto-set before
\* enable_autofusing succeeds for it again, a tick that was executing when
\* disable_autofusing was called included; stated of the scheduler's step that
\* directly follows the return.
C35_NoStartAfterDisable ==
    [][\A w \in Wallets :
          (/\ last.op = "disable_autofusing"
           /\ last.w = w
           /\ last.raised = ""
           /\ last'.op = "run_wallet") =>
              /\ ~(last'.w = w /\ last'.started # {})
              /\ fusions_auto'[w] \subseteq fusions_auto[w]]_vars

\* C36: every wallet in the autofusing registry has its round sets (_fusions
\* and _fusions_auto) attached, whatever calls of add_wallet, enable_autofusing,
\* disable_autofusing and remove_wallet were made and however they interleave,
\* and no scheduler tick finds a wallet's round set missing.
C36_RoundSetsAttached ==
    /\ \A w \in Wallets : InRegistry(autofusing_wallets, w) => attached[w]
    /\ ~(last.op = "run_wallet" /\ last.raised = "AttributeError")

\* C37: in automatic-port mode get_torport never fails: called at any moment
\* after the plugin's construction, the initial scan's thread having finished
\* or not, it returns None or a port.
C37_GetTorportNeverFails ==
    (ret.op = "get_torport" /\ arg.tor_port_auto) =>
        /\ ret.raised = ""
        /\ ret.port \in {"None", "tc", "manual"} \cup Range(TOR_PORTS)

\* C38: when every bucket of the eligible list has 1 to 4 coins, as in the
\* lists of select_coins, the coins select_random_coins returns are at most
\* DEFAULT_MAX_COINS (20), for every fraction, shuffle and draw, the fallback
\* on an empty result included; and for any eligible list the coins returned
\* are more than 20 only when the main loop accepted nothing and the result is
\* the one bucket of the fallback.
C38_CoinCap ==
    ret.op = "select_random_coins" =>
        /\ (\A k \in 1..Len(arg.eligible) : Len(arg.eligible[k].coins) \in 1..4) =>
               CoinCount(ret.result) <= DEFAULT_MAX_COINS
        /\ CoinCount(ret.result) > DEFAULT_MAX_COINS =>
               /\ LoopAccepted = <<>>
               /\ Len(ret.result) = 1
               /\ ret.result[1] = ret.eligible[1].coins

\* 24 eligible coins in buckets of 4, fraction 1: exactly 20 coins are returned
C38_Witness ==
    /\ ret.op = "select_random_coins"
    /\ \A k \in 1..Len(arg.eligible) : Len(arg.eligible[k].coins) = 4
    /\ get_n_coins(arg.eligible) = DEFAULT_MAX_COINS + 4
    /\ arg.fraction = Rat(1, 1)
    /\ CoinCount(ret.result) = DEFAULT_MAX_COINS

\* C39: when the server's start call fails inside start_fusion_server, the
\* plugin records no running server: after the fusion_server_start that
\* reported the failure fusion_server is None, so that the status is "not
\* running" and a later fusion_server_start is attempted afresh.
C39_FailedStartNotRecorded ==
    (/\ ret.op = "fusion_server_start"
     /\ ret.result = RetStr("error: can't start new thread")) =>
        fusion_server = {}

\* C40: after on_close has returned, every scheduler tick that begins
\* afterwards ends at once: it starts no round, stops no round and changes no
\* wallet's auto-set, whatever the Tor load and the registry are; and the
\* plugin stays closed.
C40_ClosedTicksIdle ==
    [][(~active /\ pc["plugins"] = "idle") =>
          /\ ~active'
          /\ pc'["plugins"] = "idle"
          /\ last'.op = "run" =>
                 /\ last'.result = "inactive"
                 /\ last'.started = {}
                 /\ last'.stops = {}
                 /\ fusions_auto' = fusions_auto
                 /\ fusions' = fusions
                 /\ stopping' = stopping
                 /\ status' = status
                 /\ held' = held]_vars

\* a tick has begun and ended after on_close, with a wallet in the registry
\* that has a waiting auto round not asked to stop
C40_Witness ==
    /\ ~active
    /\ last.op = "run"
    /\ last.result = "inactive"
    /\ \E w \in Wallets :
           /\ InRegistry(autofusing_wallets, w)
           /\ \E f \in fusions_auto[w] : status[f] = "waiting" /\ ~stopping[f]

=============================================================================
